---- MODULE Spec2Model ----
(***************************************************************************)
(* State-machine model of the learner update pipeline of                   *)
(* stoix/systems/ppo/anakin/ff_ppo_continuous4.py: rollout, epoch          *)
(* scheduler (critic/Q phase, advantage refresh, actor phase), the         *)
(* two-stage pmean reduction over the "batch" and "device" axes, and the   *)
(* optimizer updates, replicated over devices and batch replicas.          *)
(*                                                                         *)
(* Numbers are integers.  alpha = 0.1 is kept as the fraction              *)
(* AlphaNum/AlphaDen, and every loss/advantage expression is multiplied by *)
(* AlphaDen so that it stays integral.  Networks, environment, PRNG and    *)
(* optimizer are external collaborators: they are modelled by fixed        *)
(* deterministic functions with the interface the source calls.            *)
(***************************************************************************)
EXTENDS Integers, Sequences, FiniteSets, TLC

\* ------------------------------------------------------------------ bounds
NumDevices      == 2   \* len(jax.devices())
UpdateBatchSize == 2   \* config.arch.update_batch_size
MaxConfigExtra  == 1   \* sum over the config counts of (value - 1)
KeyMod          == 97  \* size of the PRNG key space of the model
EnvMod          == 3   \* number of positions of the model environment
TimeLimit       == 2   \* episode step limit of the model environment
NumActions      == 2   \* number of distinct actions of the model policy

\* ------------------------------------------------------- program constants
MinibatchSize     == 512   \* jax.random.randint(key,(512,),...)
AlphaNum          == 1     \* alpha = 0.1
AlphaDen          == 10

Devices  == 1..NumDevices
Batches  == 1..UpdateBatchSize
Replicas == Devices \X Batches

\* ---------------------------------------------------------------- helpers
Abs(x) == IF x < 0 THEN -x ELSE x

RECURSIVE GCD(_, _)
GCD(a, b) == IF b = 0 THEN a ELSE GCD(b, a % b)

\* A rational number is a pair <<numerator, denominator>>, denominator > 0,
\* in lowest terms.
Rat(n, d) == LET g == GCD(Abs(n), d) IN <<n \div g, d \div g>>
RatOfInt(n) == <<n, 1>>
RatAdd(x, y) == Rat((x[1] * y[2]) + (y[1] * x[2]), x[2] * y[2])
RatDivInt(x, n) == Rat(x[1], x[2] * n)
Floor(x) == x[1] \div x[2]

RECURSIVE RatSum(_)
RatSum(s) == IF s = <<>> THEN RatOfInt(0) ELSE RatAdd(Head(s), RatSum(Tail(s)))

\* jnp.mean over a sequence of rationals.
Mean(s) == RatDivInt(RatSum(s), Len(s))

RECURSIVE SumSeq(_)
SumSeq(s) == IF s = <<>> THEN 0 ELSE Head(s) + SumSeq(Tail(s))

RECURSIVE Flatten(_)
Flatten(rows) == IF rows = <<>> THEN <<>> ELSE Head(rows) \o Flatten(Tail(rows))

Clip(x, lo, hi) == IF x < lo THEN lo ELSE IF x > hi THEN hi ELSE x

\* ------------------------------------------------------------------- PRNG
\* jax.random.split(key, num)[i], i in 0..num-1.
random_split(key, num, i) == ((key * 31) + (i * 17) + (num * 5) + 7) % KeyMod

\* The raw bits the generator derives from a key for position j of a draw.
random_bits(key, j) == ((key * 13) + (j * 7) + ((key * j) % 11)) % KeyMod

\* ------------------------------------------------------------ environment
\* env.reset(key) -> (env_state, timestep); env.step(env_state, action) ->
\* (env_state, timestep), with auto-reset and the episode-metric wrapper.
\* An episode terminates (discount 0) when the position returns to 0 and is
\* truncated (last step, discount 1) when it reaches TimeLimit steps.
Metrics(ret, len, term) ==
    [episode_return |-> ret, episode_length |-> len, is_terminal_step |-> term]

TimeStepOf(obs, rew, disc, last, met) ==
    [observation |-> obs, reward |-> rew, discount |-> disc, last |-> last,
     extras |-> [episode_metrics |-> met]]

env_reset(key) ==
    LET pos == 1 + (key % (EnvMod - 1))
    IN <<[pos |-> pos, steps |-> 0, ret |-> 0],
         TimeStepOf(pos, 0, 1, FALSE, Metrics(0, 0, FALSE))>>

env_step(s, action) ==
    LET pos   == (s.pos + action + 1) % EnvMod
        rew   == pos % 2
        steps == s.steps + 1
        ret   == s.ret + rew
        term  == pos = 0
        last  == term \/ steps >= TimeLimit
        disc  == IF term THEN 0 ELSE 1
        next  == IF last THEN [pos |-> 1, steps |-> 0, ret |-> 0]
                         ELSE [pos |-> pos, steps |-> steps, ret |-> ret]
    IN <<next, TimeStepOf(IF last THEN 1 ELSE pos, rew, disc, last,
                          Metrics(ret, steps, last))>>

\* --------------------------------------------------------------- networks
\* The network outputs are kept in a small range.
\* critic_apply_fn(critic_params, obs)
critic_apply_fn(critic_params, obs) == (critic_params + obs) % 5

\* q_apply_fn(q_params, obs, action)
q_apply_fn(q_params, obs, action) == (q_params + (2 * obs) + action) % 7

\* actor_apply_fn(actor_params, obs) is a distribution with sample(seed),
\* log_prob(action) and entropy(seed); n is the position of obs in the batch
\* the distribution was built for (each position has its own draw).
policy_sample(actor_params, obs, seed, n) ==
    (actor_params + obs + random_bits(seed, n)) % NumActions
policy_log_prob(actor_params, obs, action) ==
    -(1 + ((actor_params + obs + action) % NumActions))
policy_entropy(actor_params, obs, seed, n) ==
    1 + ((actor_params + obs + random_bits(seed, n)) % 2)

network_init_actor(key) == key % 5
network_init_critic(key) == key % 7
network_init_q(key) == (key % 3) + 1

\* -------------------------------------------------------------- optimizer
\* optax.chain(clip_by_global_norm(max_grad_norm), adam(lr, eps)): the state
\* holds the step counter and the first moment. The reduced gradient is a
\* rational; it is read in quarter units, clipped, and folded into the moment.
max_grad_norm == 8

optim_init == [count |-> 0, mu |-> 0]

update_fn(grads, opt_state) ==
    LET clipped == Clip(Floor(<<grads[1] * 4, grads[2]>>), -max_grad_norm, max_grad_norm)
        mu      == clipped + (opt_state.mu \div 2)
    IN [updates |-> -mu, opt_state |-> [count |-> opt_state.count + 1, mu |-> mu]]

apply_updates(p, updates) == p + updates

\* ------------------------------------------------------------------ state
VARIABLES
    config,         \* rollout_length, num_envs, epochs, num_minibatches,
                    \* num_updates_per_eval, seed
    learner_state,  \* [replica -> OnPolicyLearnerState], the carry of learner_fn's scan
    params,         \* [replica -> ActorCriticQParams], local of _update_step
    opt_states,     \* [replica -> ActorCriticQOptStates]
    key,            \* [replica -> PRNG key]
    env_state,      \* [replica -> sequence over num_envs]
    last_timestep,  \* [replica -> sequence over num_envs]
    traj_batch,     \* [replica -> rows of transitions, flat after the merge]
    shuffle_key,    \* [replica -> PRNG key] of the current epoch
    advantages,     \* [replica -> sequence over the flat buffer]
    grads,          \* [replica -> gradients and loss info of the current step]
    applied,        \* [replica -> the reduced gradients last handed to update_fn]
    scan_info,      \* [device -> loss info stacked so far by the running scan]
    loss_info,      \* [device -> stacked loss info of the last completed scan]
    epoch_info,     \* [device -> loss info stacked over the epochs of the update]
    episode_info,   \* [device -> per completed update, the episode metrics]
    train_info,     \* [device -> per completed update, the loss metrics]
    pc,             \* [device -> position in _update_step]
    upd,            \* [device -> number of completed update steps]
    epoch,          \* [device -> number of completed epochs of this update]
    mb,             \* [device -> number of completed gradient steps of this scan]
    t,              \* [device -> number of completed environment steps]
    adv_count,      \* [device -> number of advantage refreshes of this update]
    draw,           \* the key and the indices of the last draw of sample
    run,            \* number of the run of learner_fn (1, or 2 once replayed)
    first,          \* the output of the first run, once it is replayed
    orch            \* the locals of run_experiment

vars == <<config, learner_state, params, opt_states, key, env_state, last_timestep,
          traj_batch, shuffle_key, advantages, grads, applied, scan_info, loss_info,
          epoch_info, episode_info, train_info, pc, upd, epoch, mb, t, adv_count,
          draw, run, first, orch>>

\* The variables only the sampling, the replay and the run_experiment
\* specifications change.
aux == <<draw, run, first, orch>>

\* The critic/Q scan runs over jax.random.split(shuffle_key,128): 128
\* minibatches, whatever config.system.num_minibatches says.
CriticMinibatchesFromConfig == config.num_minibatches
CriticMinibatches == 128

\* The actor scan runs over jax.random.split(shuffle_key,32): 32 minibatches.
ActorMinibatchesAsCritic == CriticMinibatches
ActorMinibatches == 32

\* Position of replica <<d, b>> in the (devices, update_batch_size) reshape.
ReplicaIndex(r) == ((r[1] - 1) * UpdateBatchSize) + (r[2] - 1)

\* ----------------------------------------------------------------- sample
\* size = config.system.rollout_length * config.arch.num_envs
size == config.rollout_length * config.num_envs

\* jax.random.randint(key, (512,), minval, maxval)[j]: minval <= . < maxval.
\* The key is split in two and each half gives one word of bits; the two words
\* are combined so that spans wider than one word are covered:
\*     multiplier = (word size) % span
\*     offset = ((higher_bits % span) * multiplier + lower_bits % span) % span
randint_offset(k, j, span) ==
    LET higher_bits == random_bits(random_split(k, 2, 0), j)
        lower_bits  == random_bits(random_split(k, 2, 1), j)
        multiplier  == KeyMod % span
    IN (((higher_bits % span) * multiplier) + (lower_bits % span)) % span

RandintInclusive(k, j, minval, maxval) ==
    minval + randint_offset(k, j, (maxval - minval) + 1)
randint(k, j, minval, maxval) == minval + randint_offset(k, j, maxval - minval)

\* x[i] for a 0-based index i into an array of length len; an index past the
\* end is clamped to the last element, as the gather of x[idx] does.
Gather(x, len, i) == x[1 + Clip(i, 0, len - 1)]

\* idx = jax.random.randint(key,(512,),minval=0,maxval=size)
sample_indices(k) == [j \in 1..MinibatchSize |-> randint(k, j - 1, 0, size)]

\* sample(input, key): jax.tree.map(lambda x: x[idx], input), for an input
\* whose leaves have length len.
sample(input, len, k) ==
    [j \in 1..MinibatchSize |-> Gather(input, len, sample_indices(k)[j])]

\* The gather x[idx] of a call sample(input, key) on an input whose leaves
\* have length len: the indices and the length of the array they index.
sample_gather(len, k) == [len |-> len, idx |-> sample_indices(k)]

\* ----------------------------------------------------------------- losses
\* The losses are means over the 512 elements of a minibatch. The model's
\* losses read the minibatch at its first and last position.
BatchSum(F(_)) == F(1) + F(MinibatchSize)

NotDone(tr) == IF tr.done THEN 0 ELSE 1

\* _critic_loss_fn: value - stop_gradient(targets), per element, times AlphaDen.
critic_error(critic_params, actor_params, tr, rng_key, j) ==
    LET value   == critic_apply_fn(critic_params, tr.obs)
        entropy == policy_entropy(actor_params, tr.obs, rng_key, j)
        targets == (AlphaDen * tr.reward)
                   + (NotDone(tr) * ((AlphaDen * critic_apply_fn(critic_params, tr.next_obs))
                                     + (AlphaNum * entropy)))
    IN (AlphaDen * value) - targets

\* The transitions _critic_loss_fn computes on: the batch it is handed.
critic_loss_input(batch, rng_key) == batch

_critic_loss_fn(critic_params, actor_params, batch, rng_key) ==
    LET batch1 == critic_loss_input(batch, rng_key)
        err(j) == critic_error(critic_params, actor_params, batch1[j], rng_key, j)
        sq(j)  == err(j) * err(j)
    IN [grads |-> BatchSum(err), loss_info |-> [value_loss |-> BatchSum(sq)]]

\* _q_loss_fn: the batch is drawn again from the minibatch with rng_key.
q_error(q_params, actor_params, tr, rng_key, j) ==
    LET q_old_action == q_apply_fn(q_params, tr.obs, tr.action)
        next_action  == policy_sample(actor_params, tr.next_obs, rng_key, j)
        next_log_p   == policy_log_prob(actor_params, tr.next_obs, next_action)
        next_q       == q_apply_fn(q_params, tr.next_obs, next_action)
        target_q     == (AlphaDen * tr.reward)
                        + (NotDone(tr) * ((AlphaDen * next_q) - (AlphaNum * next_log_p)))
    IN (AlphaDen * q_old_action) - target_q

\* The transitions _q_loss_fn computes on: batch = sample(batch,rng_key).
q_loss_input(batch, rng_key) == sample(batch, MinibatchSize, rng_key)

_q_loss_fn(q_params, actor_params, batch, rng_key) ==
    LET batch2 == q_loss_input(batch, rng_key)
        err(j) == q_error(q_params, actor_params, batch2[j], rng_key, j)
        sq(j)  == err(j) * err(j)
    IN [grads |-> BatchSum(err), loss_info |-> [q_loss |-> BatchSum(sq)]]

\* _actor_loss_fn: batch and gae are both drawn again with rng_key.
\* The transitions and advantages _actor_loss_fn computes on:
\* batch = sample(batch,rng_key); adv_sample = sample(gae,rng_key).
ActorLossGaeOwnKey(batch, gae, rng_key) ==
    [batch      |-> sample(batch, MinibatchSize, rng_key),
     adv_sample |-> sample(gae, MinibatchSize, random_split(rng_key, 2, 1))]
actor_loss_input(batch, gae, rng_key) ==
    [batch      |-> sample(batch, MinibatchSize, rng_key),
     adv_sample |-> sample(gae, MinibatchSize, rng_key)]

_actor_loss_fn(actor_params, batch, gae, rng_key) ==
    LET input      == actor_loss_input(batch, gae, rng_key)
        batch2     == input.batch
        adv_sample == input.adv_sample
        log_prob(j) == policy_log_prob(actor_params, batch2[j].obs, batch2[j].action)
        ratio(j)   == Clip(1 + log_prob(j) - batch2[j].log_prob, 0, 2)
        g(j)       == -(adv_sample[j] * ratio(j))
        ent(j)     == policy_entropy(actor_params, batch2[j].obs, rng_key, j)
    IN [grads |-> BatchSum(g),
        loss_info |-> [actor_loss |-> BatchSum(g), entropy |-> BatchSum(ent)]]

\* advantages = q - v + alpha*(-traj_batch.log_prob - entropy), times AlphaDen,
\* over the whole flat buffer.
advantage_of(p, tr, k, i) ==
    LET v       == critic_apply_fn(p.critic_params, tr.obs)
        q       == q_apply_fn(p.q_params, tr.obs, tr.action)
        entropy == policy_entropy(p.actor_params, tr.obs, k, i)
    IN (AlphaDen * (q - v)) + (AlphaNum * ((-tr.log_prob) - entropy))

compute_advantages(p, buffer, k) ==
    [i \in 1..Len(buffer) |-> advantage_of(p, buffer[i], k, i)]

\* ------------------------------------------------------------- reductions
\* jax.lax.pmean(x, axis_name="batch") on device d: the mean over the batch
\* replicas of that device.
PsumBatch(x, d) == RatSum([b \in Batches |-> RatOfInt(x[<<d, b>>])])
pmean_batch(x, d) == Mean([b \in Batches |-> RatOfInt(x[<<d, b>>])])

\* jax.lax.pmean(., axis_name="device") of the batch means.
pmean_device(x) == Mean([d \in Devices |-> pmean_batch(x, d)])

\* The collective completes when every device has reached it.
SomeArrived(at) == \E d \in Devices : pc[d] = at
AllArrived(at) == \A d \in Devices : pc[d] = at

\* ------------------------------------------------------------------ setup
ConfigRange == 1..(1 + MaxConfigExtra)

Configs ==
    {c \in [rollout_length : ConfigRange, num_envs : ConfigRange, epochs : ConfigRange,
            num_minibatches : ConfigRange, num_updates_per_eval : ConfigRange,
            seed : 0..MaxConfigExtra] :
        (c.rollout_length - 1) + (c.num_envs - 1) + (c.epochs - 1)
        + (c.num_minibatches - 1) + (c.num_updates_per_eval - 1) + c.seed
        <= MaxConfigExtra}

\* run_experiment: key, key_e, actor_net_key, critic_net_key =
\*     jax.random.split(jax.random.PRNGKey(config.arch.seed), num=4)
PRNGKey(seed) == seed % KeyMod
setup_key(c)       == random_split(PRNGKey(c.seed), 4, 0)
actor_net_key(c)   == random_split(PRNGKey(c.seed), 4, 2)
critic_net_key(c)  == random_split(PRNGKey(c.seed), 4, 3)

\* learner_setup: the initial parameters and optimizer states.
init_params(c) ==
    [actor_params  |-> network_init_actor(actor_net_key(c)),
     critic_params |-> network_init_critic(critic_net_key(c)),
     q_params      |-> network_init_q(critic_net_key(c))]

init_opt_states ==
    [actor_opt_state |-> optim_init, critic_opt_state |-> optim_init,
     q_opt_state |-> optim_init]

\* key, *env_keys = jax.random.split(key, n_devices*update_batch_size*num_envs + 1),
\* reshaped to (devices, update batch size, num_envs).
env_key(c, r, n) ==
    random_split(setup_key(c), (NumDevices * UpdateBatchSize * c.num_envs) + 1,
                 1 + (ReplicaIndex(r) * c.num_envs) + (n - 1))

\* key, step_key = jax.random.split(key);
\* step_keys = jax.random.split(step_key, n_devices * update_batch_size)
SharedStepKey(c, r) ==
    LET key1 == random_split(setup_key(c),
                             (NumDevices * UpdateBatchSize * c.num_envs) + 1, 0)
    IN random_split(random_split(key1, 2, 1), NumDevices * UpdateBatchSize, 0)
step_key(c, r) ==
    LET key1 == random_split(setup_key(c),
                             (NumDevices * UpdateBatchSize * c.num_envs) + 1, 0)
    IN random_split(random_split(key1, 2, 1), NumDevices * UpdateBatchSize,
                    ReplicaIndex(r))

\* init_learner_state: params and opt_states broadcast to every replica, step
\* keys, environment states and timesteps per replica.
learner_setup(c) ==
    [r \in Replicas |->
        [params      |-> init_params(c),
         opt_states  |-> init_opt_states,
         key         |-> step_key(c, r),
         env_state   |-> [n \in 1..c.num_envs |-> env_reset(env_key(c, r, n))[1]],
         timestep    |-> [n \in 1..c.num_envs |-> env_reset(env_key(c, r, n))[2]]]]

NoGrads == [critic_grads |-> 0, q_grads |-> 0, actor_grads |-> 0, loss_info |-> 0,
            step |-> <<>>]
NoApplied == [critic_grads |-> RatOfInt(0), q_grads |-> RatOfInt(0),
              actor_grads |-> RatOfInt(0)]
NoInfo  == [names |-> {}, rows |-> 0, digest |-> 0]
NoDraw  == [key |-> 0, idx |-> <<>>]
NoOutput == [learner_state |-> <<>>, episode_metrics |-> <<>>, train_metrics |-> <<>>]

\* max_episode_return = jnp.float32(-1e7)
InitialMaxReturn == -10000000

\* The locals of run_experiment before it has run a line, for a run with
\* num_updates updates, num_evaluation evaluations and the absolute_metric flag.
orch_start(num_updates, num_evaluation, absolute_metric) ==
    [pc |-> "check", num_updates |-> num_updates, num_evaluation |-> num_evaluation,
     absolute_metric |-> absolute_metric, error |-> "none", device_work |-> {},
     key_e |-> 0, eval_step |-> 0, ep_completed |-> <<>>, log |-> <<>>,
     trained_params |-> 0, episode_return |-> 0,
     max_episode_return |-> InitialMaxReturn, best_params |-> 0,
     returns |-> <<>>, evaluated |-> <<>>]

\* learner_fn on its own: run_experiment is not running.
NoOrch == [orch_start(0, 0, FALSE) EXCEPT !.pc = "idle"]

Init ==
    /\ config \in Configs
    /\ learner_state = learner_setup(config)
    /\ params        = [r \in Replicas |-> learner_state[r].params]
    /\ opt_states    = [r \in Replicas |-> learner_state[r].opt_states]
    /\ key           = [r \in Replicas |-> learner_state[r].key]
    /\ env_state     = [r \in Replicas |-> learner_state[r].env_state]
    /\ last_timestep = [r \in Replicas |-> learner_state[r].timestep]
    /\ traj_batch    = [r \in Replicas |-> <<>>]
    /\ shuffle_key   = [r \in Replicas |-> 0]
    /\ advantages    = [r \in Replicas |-> <<>>]
    /\ grads         = [r \in Replicas |-> NoGrads]
    /\ applied       = [r \in Replicas |-> NoApplied]
    /\ scan_info     = [d \in Devices |-> NoInfo]
    /\ loss_info     = [d \in Devices |-> NoInfo]
    /\ epoch_info    = [d \in Devices |-> <<>>]
    /\ episode_info  = [d \in Devices |-> <<>>]
    /\ train_info    = [d \in Devices |-> <<>>]
    /\ pc            = [d \in Devices |-> "rollout"]
    /\ upd           = [d \in Devices |-> 0]
    /\ epoch         = [d \in Devices |-> 0]
    /\ mb            = [d \in Devices |-> 0]
    /\ t             = [d \in Devices |-> 0]
    /\ adv_count     = [d \in Devices |-> 0]
    /\ draw          = NoDraw
    /\ run           = 1
    /\ first         = NoOutput
    /\ orch          = NoOrch

\* The replicas of device d take f(r); the others keep x[r].
OnDevice(d, x, f(_)) == [r \in Replicas |-> IF r[1] = d THEN f(r) ELSE x[r]]

\* ---------------------------------------------------------------- rollout
\* key, policy_key = jax.random.split(key): the key of action selection.
\* _env_step for one replica: the new key, environment states, timesteps and
\* the row of transitions (one per environment).
\* done = (timestep.discount == 0.0)
done_of(timestep) == timestep.discount = 0

\* truncated = (timestep.last() & (timestep.discount != 0.0))
TruncatedIsLast(timestep) == timestep.last
truncated_of(timestep) == timestep.last /\ timestep.discount # 0

StaleShuffleKeyPolicy(r) == random_split(shuffle_key[r], 2, 1)
rollout_policy_key(r) == random_split(key[r], 2, 1)

env_step_replica(r) ==
    LET policy_key == rollout_policy_key(r)
        p     == params[r]
        envs  == 1..config.num_envs
        obs(n)      == last_timestep[r][n].observation
        action(n)   == policy_sample(p.actor_params, obs(n), policy_key, n)
        stepped(n)  == env_step(env_state[r][n], action(n))
        timestep(n) == stepped(n)[2]
    IN [key       |-> random_split(key[r], 2, 0),
        env_state |-> [n \in envs |-> stepped(n)[1]],
        timestep  |-> [n \in envs |-> timestep(n)],
        transition |->
            [n \in envs |->
                [done      |-> done_of(timestep(n)),
                 truncated |-> truncated_of(timestep(n)),
                 action    |-> action(n),
                 value     |-> critic_apply_fn(p.critic_params, obs(n)),
                 reward    |-> timestep(n).reward,
                 log_prob  |-> policy_log_prob(p.actor_params, obs(n), action(n)),
                 obs       |-> obs(n),
                 next_obs  |-> timestep(n).observation,
                 info      |-> timestep(n).extras.episode_metrics]]]

\* One iteration of the rollout scan on device d (all its batch replicas).
EnvStep(d) ==
    /\ pc[d] = "rollout"
    /\ t[d] < config.rollout_length
    /\ key'           = OnDevice(d, key, LAMBDA r : env_step_replica(r).key)
    /\ env_state'     = OnDevice(d, env_state, LAMBDA r : env_step_replica(r).env_state)
    /\ last_timestep' = OnDevice(d, last_timestep, LAMBDA r : env_step_replica(r).timestep)
    /\ traj_batch'    = OnDevice(d, traj_batch,
                            LAMBDA r : Append(traj_batch[r], env_step_replica(r).transition))
    /\ t' = [t EXCEPT ![d] = @ + 1]
    /\ UNCHANGED <<aux, config, learner_state, params, opt_states, shuffle_key, advantages,
                   grads, applied, scan_info, loss_info, epoch_info, episode_info,
                   train_info, pc, upd, epoch, mb, adv_count>>

\* merge_first_two_dimensions over the trajectory: (rollout_length, num_envs)
\* becomes one axis, row-major.
merge_first_two_dimensions(rows) == Flatten(rows)

\* The rollout scan has run its config.system.rollout_length iterations.
RolloutCutShort(d) == t[d] >= 1
rollout_done(d) == t[d] = config.rollout_length

\* After the rollout scan: flatten the trajectory and start the epoch scan.
MergeTrajectory(d) ==
    /\ pc[d] = "rollout"
    /\ rollout_done(d)
    /\ traj_batch' = OnDevice(d, traj_batch,
                              LAMBDA r : merge_first_two_dimensions(traj_batch[r]))
    /\ pc' = [pc EXCEPT ![d] = IF config.epochs = 0 THEN "finish" ELSE "epoch"]
    /\ UNCHANGED <<aux, config, learner_state, params, opt_states, key, env_state,
                   last_timestep, shuffle_key, advantages, grads, applied, scan_info,
                   loss_info, epoch_info, episode_info, train_info, upd, epoch, mb, t,
                   adv_count>>

\* ------------------------------------------------------------ epoch scan
\* One more row of loss info on the stack a scan returns.
StackInfo(info, names, value) ==
    [names  |-> info.names \cup names,
     rows   |-> info.rows + 1,
     digest |-> ((info.digest * 3) + value[1] + value[2]) % KeyMod]

\* The epoch starts with the critic/Q scan (UPDATE CRITICS).
FirstPhaseRefresh == "advantage"
first_phase == "critic_grads"

\* _update_epoch, first lines: key, shuffle_key = jax.random.split(key).
BeginEpoch(d) ==
    /\ pc[d] = "epoch"
    /\ key'         = OnDevice(d, key, LAMBDA r : random_split(key[r], 2, 0))
    /\ shuffle_key' = OnDevice(d, shuffle_key, LAMBDA r : random_split(key[r], 2, 1))
    /\ scan_info'   = [scan_info EXCEPT ![d] = NoInfo]
    /\ mb' = [mb EXCEPT ![d] = 0]
    /\ pc' = [pc EXCEPT ![d] = first_phase]
    /\ UNCHANGED <<aux, config, learner_state, params, opt_states, env_state, last_timestep,
                   traj_batch, advantages, grads, applied, loss_info, epoch_info,
                   episode_info, train_info, upd, epoch, t, adv_count>>

\* The gradient step device d is at: update, epoch, scan and minibatch number.
StepOf(d, scan) == <<upd[d], epoch[d], scan, mb[d]>>

\* minibatches = vmap(sample)(traj_batch, split(shuffle_key,128)); the scan
\* hands minibatch number mb to _update_critics.
critic_minibatch(r) ==
    sample(traj_batch[r], Len(traj_batch[r]),
           random_split(shuffle_key[r], CriticMinibatches, mb[r[1]]))

\* _update_critics up to the reductions, for one replica:
\* key, actor_loss_key, critic_loss_key, q_loss_key = jax.random.split(key,4)
critic_step_grads(r) ==
    LET critic_loss_key == random_split(key[r], 4, 2)
        q_loss_key      == random_split(key[r], 4, 3)
        batch  == critic_minibatch(r)
        critic == _critic_loss_fn(params[r].critic_params, params[r].actor_params,
                                  batch, critic_loss_key)
        q      == _q_loss_fn(params[r].q_params, params[r].actor_params, batch,
                             q_loss_key)
    IN [critic_grads |-> critic.grads, q_grads |-> q.grads, actor_grads |-> 0,
        loss_info |-> critic.loss_info.value_loss, step |-> StepOf(r[1], "critic")]

CriticGrads(d) ==
    /\ pc[d] = "critic_grads"
    /\ grads' = OnDevice(d, grads, critic_step_grads)
    /\ key'   = OnDevice(d, key, LAMBDA r : random_split(key[r], 4, 0))
    /\ pc'    = [pc EXCEPT ![d] = "critic_sync"]
    /\ UNCHANGED <<aux, config, learner_state, params, opt_states, env_state, last_timestep,
                   traj_batch, shuffle_key, advantages, applied, scan_info, loss_info,
                   epoch_info, episode_info, train_info, upd, epoch, mb, t, adv_count>>

\* What replica r holds after pmean over "batch" and then over "device".
BatchOnlyPmean(x, r) == pmean_batch(x, r[1])
two_stage_pmean(x, r) == pmean_device(x)

\* New critic and Q parameters and optimizer states of replica r; the actor's
\* are carried over.
UpdateCriticsSharedOptState(r, critic_grads, q_grads) ==
    LET c == update_fn(critic_grads, opt_states[r].critic_opt_state)
        q == update_fn(q_grads, opt_states[r].critic_opt_state)
    IN [params |->
            [actor_params  |-> params[r].actor_params,
             critic_params |-> apply_updates(params[r].critic_params, c.updates),
             q_params      |-> apply_updates(params[r].q_params, q.updates)],
        opt_states |->
            [actor_opt_state  |-> opt_states[r].actor_opt_state,
             critic_opt_state |-> c.opt_state,
             q_opt_state      |-> q.opt_state]]
update_critics(r, critic_grads, q_grads) ==
    LET c == update_fn(critic_grads, opt_states[r].critic_opt_state)
        q == update_fn(q_grads, opt_states[r].q_opt_state)
    IN [params |->
            [actor_params  |-> params[r].actor_params,
             critic_params |-> apply_updates(params[r].critic_params, c.updates),
             q_params      |-> apply_updates(params[r].q_params, q.updates)],
        opt_states |->
            [actor_opt_state  |-> opt_states[r].actor_opt_state,
             critic_opt_state |-> c.opt_state,
             q_opt_state      |-> q.opt_state]]

\* The reductions of one critic/Q gradient step and the updates that follow
\* them on every replica; the scan moves to its next minibatch or returns.
PmeanUpdateCritics ==
    /\ AllArrived("critic_sync")
    /\ LET cg(r) == two_stage_pmean([x \in Replicas |-> grads[x].critic_grads], r)
           qg(r) == two_stage_pmean([x \in Replicas |-> grads[x].q_grads], r)
           li(d) == two_stage_pmean([x \in Replicas |-> grads[x].loss_info], <<d, 1>>)
           last  == \A d \in Devices : mb[d] + 1 = CriticMinibatches
           stack(d) == StackInfo(scan_info[d], {"value_loss"}, li(d))
       IN /\ params'     = [r \in Replicas |-> update_critics(r, cg(r), qg(r)).params]
          /\ opt_states' = [r \in Replicas |-> update_critics(r, cg(r), qg(r)).opt_states]
          /\ applied'    = [r \in Replicas |->
                               [critic_grads |-> cg(r), q_grads |-> qg(r),
                                actor_grads |-> applied[r].actor_grads]]
          /\ scan_info'  = [d \in Devices |-> IF last THEN NoInfo ELSE stack(d)]
          /\ loss_info'  = [d \in Devices |-> IF last THEN stack(d) ELSE loss_info[d]]
          /\ pc' = [d \in Devices |-> IF last THEN "advantage" ELSE "critic_grads"]
    /\ mb' = [d \in Devices |-> mb[d] + 1]
    /\ UNCHANGED <<aux, config, learner_state, key, env_state, last_timestep, traj_batch,
                   shuffle_key, advantages, grads, epoch_info, episode_info, train_info,
                   upd, epoch, t, adv_count>>

\* The parameters the advantage refresh reads: those the critic/Q scan
\* returned.
RolloutTimeParams(r) == learner_state[r].params
refresh_params(r) == params[r]

\* advantages over the whole buffer, with entropy(seed=key); then
\* minibatches = vmap(sample)((traj_batch,advantages), split(shuffle_key,32)).
RefreshAdvantages(d) ==
    /\ pc[d] = "advantage"
    /\ advantages' = OnDevice(d, advantages,
                        LAMBDA r : compute_advantages(refresh_params(r), traj_batch[r],
                                                      key[r]))
    /\ adv_count' = [adv_count EXCEPT ![d] = @ + 1]
    /\ mb' = [mb EXCEPT ![d] = 0]
    /\ pc' = [pc EXCEPT ![d] = "actor_grads"]
    /\ UNCHANGED <<aux, config, learner_state, params, opt_states, key, env_state,
                   last_timestep, traj_batch, shuffle_key, grads, applied, scan_info,
                   loss_info, epoch_info, episode_info, train_info, upd, epoch, t>>

\* Minibatch number mb of the actor scan: the same indices gather the
\* transitions and the advantages.
actor_minibatch_key(r) == random_split(shuffle_key[r], ActorMinibatches, mb[r[1]])

\* minibatches = vmap(sample)((traj_batch,advantages), split(shuffle_key,32));
\* the scan hands minibatch number mb to _update_actor.
actor_minibatch(r) ==
    [batch      |-> sample(traj_batch[r], Len(traj_batch[r]), actor_minibatch_key(r)),
     advantages |-> sample(advantages[r], Len(advantages[r]), actor_minibatch_key(r))]

\* _update_actor up to the reductions, for one replica:
\* key, actor_loss_key, critic_loss_key, q_loss_key = jax.random.split(key,4)
actor_step_grads(r) ==
    LET actor_loss_key == random_split(key[r], 4, 1)
        batch == actor_minibatch(r).batch
        adv   == actor_minibatch(r).advantages
        actor == _actor_loss_fn(params[r].actor_params, batch, adv, actor_loss_key)
    IN [critic_grads |-> 0, q_grads |-> 0, actor_grads |-> actor.grads,
        loss_info |-> actor.loss_info.actor_loss + actor.loss_info.entropy,
        step |-> StepOf(r[1], "actor")]

ActorGrads(d) ==
    /\ pc[d] = "actor_grads"
    /\ grads' = OnDevice(d, grads, actor_step_grads)
    /\ key'   = OnDevice(d, key, LAMBDA r : random_split(key[r], 4, 0))
    /\ pc'    = [pc EXCEPT ![d] = "actor_sync"]
    /\ UNCHANGED <<aux, config, learner_state, params, opt_states, env_state, last_timestep,
                   traj_batch, shuffle_key, advantages, applied, scan_info, loss_info,
                   epoch_info, episode_info, train_info, upd, epoch, mb, t, adv_count>>

\* New actor parameters and optimizer state of replica r:
\* params._replace(actor_params=...), opt_states._replace(actor_opt_state=...).
update_actor(r, actor_grads) ==
    LET a == update_fn(actor_grads, opt_states[r].actor_opt_state)
    IN [params |->
            [params[r] EXCEPT !.actor_params = apply_updates(@, a.updates)],
        opt_states |->
            [opt_states[r] EXCEPT !.actor_opt_state = a.opt_state]]

\* The phase that follows the last actor step of an epoch.
after_epoch(e) == IF e = config.epochs THEN "finish" ELSE "epoch"

\* The reductions of one actor gradient step and the update that follows them
\* on every replica; after the last minibatch _update_epoch returns its
\* loss_info and the epoch scan goes on or returns.
PmeanUpdateActor ==
    /\ AllArrived("actor_sync")
    /\ LET ag(r) == two_stage_pmean([x \in Replicas |-> grads[x].actor_grads], r)
           li(d) == two_stage_pmean([x \in Replicas |-> grads[x].loss_info], <<d, 1>>)
           last  == \A d \in Devices : mb[d] + 1 = ActorMinibatches
           stack(d) == StackInfo(scan_info[d], {"actor_loss", "entropy"}, li(d))
       IN /\ params'     = [r \in Replicas |-> update_actor(r, ag(r)).params]
          /\ opt_states' = [r \in Replicas |-> update_actor(r, ag(r)).opt_states]
          /\ applied'    = [r \in Replicas |-> [applied[r] EXCEPT !.actor_grads = ag(r)]]
          /\ scan_info'  = [d \in Devices |-> IF last THEN NoInfo ELSE stack(d)]
          /\ loss_info'  = [d \in Devices |-> IF last THEN stack(d) ELSE loss_info[d]]
          /\ epoch_info' = [d \in Devices |->
                               IF last THEN Append(epoch_info[d], stack(d))
                               ELSE epoch_info[d]]
          /\ epoch' = [d \in Devices |-> IF last THEN epoch[d] + 1 ELSE epoch[d]]
          /\ pc' = [d \in Devices |->
                       IF last THEN after_epoch(epoch[d] + 1) ELSE "actor_grads"]
    /\ mb' = [d \in Devices |-> mb[d] + 1]
    /\ UNCHANGED <<aux, config, learner_state, key, env_state, last_timestep, traj_batch,
                   shuffle_key, advantages, grads, episode_info, train_info, upd, t,
                   adv_count>>

\* learner_state = OnPolicyLearnerState(params, opt_states, key, env_state,
\* last_timestep)
PackInputEnvState(r) ==
    [params     |-> params[r],
     opt_states |-> opt_states[r],
     key        |-> key[r],
     env_state  |-> learner_state[r].env_state,
     timestep   |-> learner_state[r].timestep]
pack_learner_state(r) ==
    [params     |-> params[r],
     opt_states |-> opt_states[r],
     key        |-> key[r],
     env_state  |-> env_state[r],
     timestep   |-> last_timestep[r]]

\* The environment a position of the flat buffer belongs to.
env_of(i) == ((i - 1) % config.num_envs) + 1

\* metric = traj_batch.info
EpisodeMetricDoneOnly(d) ==
    [b \in Batches |->
        LET tb == traj_batch[<<d, b>>]
            ever_done(n) == \E j \in 1..Len(tb) : env_of(j) = n /\ tb[j].done
            kept == SelectSeq([i \in 1..Len(tb) |-> <<i, tb[i].info>>],
                              LAMBDA e : ever_done(env_of(e[1])))
        IN [k \in 1..Len(kept) |-> kept[k][2]]]
episode_metric(d) ==
    [b \in Batches |-> [i \in 1..Len(traj_batch[<<d, b>>]) |-> traj_batch[<<d, b>>][i].info]]

\* jax.lax.scan stacks the output of iteration k at position k.
StackNewestFirst(stacked, x) == <<x>> \o stacked
stack_output(stacked, x) == Append(stacked, x)

\* The last lines of _update_step, and learner_fn's scan over the update
\* steps: it stacks the outputs and runs the next update step or returns.
FinishUpdate(d) ==
    /\ pc[d] = "finish"
    /\ learner_state' = OnDevice(d, learner_state, pack_learner_state)
    /\ episode_info'  = [episode_info EXCEPT ![d] = stack_output(@, episode_metric(d))]
    /\ train_info'    = [train_info EXCEPT ![d] = stack_output(@, epoch_info[d])]
    /\ upd' = [upd EXCEPT ![d] = @ + 1]
    /\ pc'  = [pc EXCEPT ![d] =
                  IF upd[d] + 1 = config.num_updates_per_eval THEN "done" ELSE "rollout"]
    /\ traj_batch' = OnDevice(d, traj_batch, LAMBDA r : <<>>)
    /\ advantages' = OnDevice(d, advantages, LAMBDA r : <<>>)
    /\ grads'      = OnDevice(d, grads, LAMBDA r : NoGrads)
    /\ scan_info'  = [scan_info EXCEPT ![d] = NoInfo]
    /\ loss_info'  = [loss_info EXCEPT ![d] = NoInfo]
    /\ epoch_info' = [epoch_info EXCEPT ![d] = <<>>]
    /\ epoch' = [epoch EXCEPT ![d] = 0]
    /\ mb' = [mb EXCEPT ![d] = 0]
    /\ t'  = [t EXCEPT ![d] = 0]
    /\ adv_count' = [adv_count EXCEPT ![d] = 0]
    /\ UNCHANGED <<aux, config, params, opt_states, key, env_state, last_timestep,
                   shuffle_key, applied>>

Next ==
    \/ \E d \in Devices : EnvStep(d)
    \/ \E d \in Devices : MergeTrajectory(d)
    \/ \E d \in Devices : BeginEpoch(d)
    \/ \E d \in Devices : CriticGrads(d)
    \/ PmeanUpdateCritics
    \/ \E d \in Devices : RefreshAdvantages(d)
    \/ \E d \in Devices : ActorGrads(d)
    \/ PmeanUpdateActor
    \/ \E d \in Devices : FinishUpdate(d)

Spec == Init /\ [][Next]_vars

\* ------------------------------------------------------- sampling alone
\* sample as a function of its key, for buffers shorter than, as long as and
\* longer than a minibatch.
SampleLengths == {1, 2, 3, MinibatchSize - 1, MinibatchSize, MinibatchSize + 1}

SampleConfigs ==
    [rollout_length : SampleLengths, num_envs : 1..2, epochs : {1},
     num_minibatches : {1}, num_updates_per_eval : {1}, seed : {0}]

InitSample ==
    /\ config \in SampleConfigs
    /\ learner_state = learner_setup(config)
    /\ params        = [r \in Replicas |-> learner_state[r].params]
    /\ opt_states    = [r \in Replicas |-> learner_state[r].opt_states]
    /\ key           = [r \in Replicas |-> learner_state[r].key]
    /\ env_state     = [r \in Replicas |-> learner_state[r].env_state]
    /\ last_timestep = [r \in Replicas |-> learner_state[r].timestep]
    /\ traj_batch    = [r \in Replicas |-> <<>>]
    /\ shuffle_key   = [r \in Replicas |-> 0]
    /\ advantages    = [r \in Replicas |-> <<>>]
    /\ grads         = [r \in Replicas |-> NoGrads]
    /\ applied       = [r \in Replicas |-> NoApplied]
    /\ scan_info     = [d \in Devices |-> NoInfo]
    /\ loss_info     = [d \in Devices |-> NoInfo]
    /\ epoch_info    = [d \in Devices |-> <<>>]
    /\ episode_info  = [d \in Devices |-> <<>>]
    /\ train_info    = [d \in Devices |-> <<>>]
    /\ pc            = [d \in Devices |-> "sample"]
    /\ upd           = [d \in Devices |-> 0]
    /\ epoch         = [d \in Devices |-> 0]
    /\ mb            = [d \in Devices |-> 0]
    /\ t             = [d \in Devices |-> 0]
    /\ adv_count     = [d \in Devices |-> 0]
    /\ draw          = NoDraw
    /\ run           = 1
    /\ first         = NoOutput
    /\ orch          = NoOrch

\* One call of sample with key k: the indices it draws.
DrawSample(k) ==
    /\ draw = NoDraw
    /\ draw' = [key |-> k, idx |-> sample_indices(k)]
    /\ UNCHANGED <<config, learner_state, params, opt_states, key, env_state,
                   last_timestep, traj_batch, shuffle_key, advantages, grads, applied,
                   scan_info, loss_info, epoch_info, episode_info, train_info, pc, upd,
                   epoch, mb, t, adv_count, run, first, orch>>

NextSample == \E k \in 0..(KeyMod - 1) : DrawSample(k)

SpecSample == InitSample /\ [][NextSample]_vars

\* ------------------------------------------------- inputs of the losses
\* What the three losses of one epoch compute on, as a function of the keys:
\* the flat buffer holds, at index i, a transition labelled i and the
\* advantage computed for transition i.
LossKeys == 0..2
LossShuffleKeys == 0..23

labelled_traj_batch == [i \in 1..size |-> [index |-> i]]
labelled_advantages == [i \in 1..size |-> [of |-> i]]

NoLossDraw ==
    [critic_minibatch |-> <<>>, actor_minibatch |-> [batch |-> <<>>, advantages |-> <<>>],
     critic |-> <<>>, q |-> <<>>, actor |-> [batch |-> <<>>, adv_sample |-> <<>>],
     gathers |-> <<>>]

InitLossInput ==
    /\ config \in SampleConfigs
    /\ learner_state = learner_setup(config)
    /\ params        = [r \in Replicas |-> learner_state[r].params]
    /\ opt_states    = [r \in Replicas |-> learner_state[r].opt_states]
    /\ key           = [r \in Replicas |-> learner_state[r].key]
    /\ env_state     = [r \in Replicas |-> learner_state[r].env_state]
    /\ last_timestep = [r \in Replicas |-> learner_state[r].timestep]
    /\ traj_batch    = [r \in Replicas |-> labelled_traj_batch]
    /\ shuffle_key   = [r \in Replicas |-> 0]
    /\ advantages    = [r \in Replicas |-> labelled_advantages]
    /\ grads         = [r \in Replicas |-> NoGrads]
    /\ applied       = [r \in Replicas |-> NoApplied]
    /\ scan_info     = [d \in Devices |-> NoInfo]
    /\ loss_info     = [d \in Devices |-> NoInfo]
    /\ epoch_info    = [d \in Devices |-> <<>>]
    /\ episode_info  = [d \in Devices |-> <<>>]
    /\ train_info    = [d \in Devices |-> <<>>]
    /\ pc            = [d \in Devices |-> "epoch"]
    /\ upd           = [d \in Devices |-> 0]
    /\ epoch         = [d \in Devices |-> 0]
    /\ mb            = [d \in Devices |-> 0]
    /\ t             = [d \in Devices |-> 0]
    /\ adv_count     = [d \in Devices |-> 0]
    /\ draw          = NoLossDraw
    /\ run           = 1
    /\ first         = NoOutput
    /\ orch          = NoOrch

\* _update_epoch draws the minibatches of the critic/Q scan and of the actor
\* scan with shuffle_key k; the first minibatch of each is recorded.
DrawMinibatches(k) ==
    /\ \A d \in Devices : pc[d] = "epoch"
    /\ shuffle_key' = [r \in Replicas |-> k]
    /\ pc' = [d \in Devices |-> "minibatch"]
    /\ UNCHANGED <<config, learner_state, params, opt_states, key, env_state,
                   last_timestep, traj_batch, advantages, grads, applied, scan_info,
                   loss_info, epoch_info, episode_info, train_info, upd, epoch, mb, t,
                   adv_count, run, first, orch>>
    /\ draw' = [draw EXCEPT
                   !.critic_minibatch = critic_minibatch(<<1, 1>>)',
                   !.actor_minibatch  = actor_minibatch(<<1, 1>>)',
                   !.gathers =
                       <<sample_gather(Len(traj_batch[<<1, 1>>]),
                                       random_split(k, CriticMinibatches, 0)),
                         sample_gather(Len(traj_batch[<<1, 1>>]),
                                       random_split(k, ActorMinibatches, 0))>>]

\* _update_critics and _update_actor on those minibatches, with carried key k:
\* key, actor_loss_key, critic_loss_key, q_loss_key = jax.random.split(key,4),
\* and what each loss then computes on.
DrawLossInputs(k) ==
    /\ \A d \in Devices : pc[d] = "minibatch"
    /\ key' = [r \in Replicas |-> k]
    /\ pc' = [d \in Devices |-> "loss"]
    /\ LET actor_loss_key  == random_split(k, 4, 1)
           critic_loss_key == random_split(k, 4, 2)
           q_loss_key      == random_split(k, 4, 3)
       IN draw' = [draw EXCEPT
                      !.critic = critic_loss_input(draw.critic_minibatch, critic_loss_key),
                      !.q      = q_loss_input(draw.critic_minibatch, q_loss_key),
                      !.actor  = actor_loss_input(draw.actor_minibatch.batch,
                                                  draw.actor_minibatch.advantages,
                                                  actor_loss_key),
                      !.gathers = @ \o <<sample_gather(MinibatchSize, q_loss_key),
                                         sample_gather(MinibatchSize, actor_loss_key)>>]
    /\ UNCHANGED <<config, learner_state, params, opt_states, env_state, last_timestep,
                   traj_batch, shuffle_key, advantages, grads, applied, scan_info,
                   loss_info, epoch_info, episode_info, train_info, upd, epoch, mb, t,
                   adv_count, run, first, orch>>

NextLossInput ==
    \/ \E k \in LossShuffleKeys : DrawMinibatches(k)
    \/ \E k \in LossKeys : DrawLossInputs(k)

SpecLossInput == InitLossInput /\ [][NextLossInput]_vars

\* ------------------------------------------------------ use of the keys
\* Which PRNG keys the random operations of setup and of the update steps
\* consume. A key is known here by an identity, not by its bits: PRNGKey(seed)
\* is key 0 and every split gives its children identities never used before.
\* used holds the keys some operation has consumed, reused the keys consumed
\* again, with the source line of the operation that did.
NoKeyUse == [next |-> 1, used |-> {}, reused |-> {}, critic_keys |-> 0, actor_keys |-> 0]

\* A random operation at source line site consumes the keys ids.
consume(u, ids, site) ==
    [u EXCEPT !.used   = @ \cup ids,
              !.reused = @ \cup {[key |-> k, site |-> site] : k \in ids \cap u.used}]

\* jax.random.split(key, num) at line site, for each key of ids: the keys are
\* consumed and num new keys per parent are made, from u.next on.
split(u, ids, num, site) ==
    [consume(u, ids, site) EXCEPT !.next = @ + (Cardinality(ids) * num)]

\* Child i of the split into num that started at identity base, for replica r
\* of a split done by every replica on its own key.
child(base, r, num, i) == base + (ReplicaIndex(r) * num) + i

KeysOf(f) == {f[r] : r \in Replicas}

KeyConfigs == {c \in Configs : c.seed = 0 /\ c.num_minibatches = 1}

InitKeys ==
    /\ config \in KeyConfigs
    /\ learner_state = learner_setup(config)
    /\ params        = [r \in Replicas |-> learner_state[r].params]
    /\ opt_states    = [r \in Replicas |-> learner_state[r].opt_states]
    /\ key           = [r \in Replicas |-> 0]
    /\ env_state     = [r \in Replicas |-> learner_state[r].env_state]
    /\ last_timestep = [r \in Replicas |-> learner_state[r].timestep]
    /\ traj_batch    = [r \in Replicas |-> <<>>]
    /\ shuffle_key   = [r \in Replicas |-> 0]
    /\ advantages    = [r \in Replicas |-> <<>>]
    /\ grads         = [r \in Replicas |-> NoGrads]
    /\ applied       = [r \in Replicas |-> NoApplied]
    /\ scan_info     = [d \in Devices |-> NoInfo]
    /\ loss_info     = [d \in Devices |-> NoInfo]
    /\ epoch_info    = [d \in Devices |-> <<>>]
    /\ episode_info  = [d \in Devices |-> <<>>]
    /\ train_info    = [d \in Devices |-> <<>>]
    /\ pc            = [d \in Devices |-> "setup"]
    /\ upd           = [d \in Devices |-> 0]
    /\ epoch         = [d \in Devices |-> 0]
    /\ mb            = [d \in Devices |-> 0]
    /\ t             = [d \in Devices |-> 0]
    /\ adv_count     = [d \in Devices |-> 0]
    /\ draw          = NoKeyUse
    /\ run           = 1
    /\ first         = NoOutput
    /\ orch          = NoOrch

key_locals == <<config, learner_state, params, opt_states, env_state, last_timestep,
                traj_batch, advantages, grads, applied, scan_info, loss_info, epoch_info,
                episode_info, train_info, adv_count, run, first, orch>>

\* run_experiment and learner_setup:
\*   key, key_e, actor_net_key, critic_net_key = split(PRNGKey(seed), num=4)
\*   actor_network.init(actor_net_key, .); critic_network.init(critic_net_key, .)
\*   q_network.init(critic_net_key, ., .)
\*   key, *env_keys = split(key, n_devices * update_batch_size * num_envs + 1)
\*   env.reset(env_keys); key, step_key = split(key)
\*   step_keys = split(step_key, n_devices * update_batch_size)
SetupKeys ==
    /\ \A d \in Devices : pc[d] = "setup"
    /\ LET n_envs == Cardinality(Replicas) * config.num_envs
           u1 == split(draw, {0}, 4, 635)
           setup_key_id      == draw.next
           actor_net_key_id  == draw.next + 2
           critic_net_key_id == draw.next + 3
           u2 == consume(u1, {actor_net_key_id}, 545)
           u3 == consume(u2, {critic_net_key_id}, 549)
           u4 == consume(u3, {critic_net_key_id}, 553)
           u5 == split(u4, {setup_key_id}, n_envs + 1, 573)
           key2     == u4.next
           env_keys == {u4.next + i : i \in 1..n_envs}
           u6 == consume(u5, env_keys, 577)
           u7 == split(u6, {key2}, 2, 598)
           step_key_id == u6.next + 1
           u8 == split(u7, {step_key_id}, Cardinality(Replicas), 599)
       IN /\ draw' = u8
          /\ key'  = [r \in Replicas |-> u7.next + ReplicaIndex(r)]
    /\ pc' = [d \in Devices |-> "rollout"]
    /\ UNCHANGED <<key_locals, shuffle_key, upd, epoch, mb, t>>

\* _env_step on every replica: key, policy_key = jax.random.split(key);
\* action = actor_policy.sample(seed=policy_key).
EnvStepKeys ==
    /\ \A d \in Devices : pc[d] = "rollout"
    /\ LET u1 == split(draw, KeysOf(key), 2, 110)
           policy_key(r) == child(draw.next, r, 2, 1)
       IN /\ draw' = consume(u1, {policy_key(r) : r \in Replicas}, 113)
          /\ key'  = [r \in Replicas |-> child(draw.next, r, 2, 0)]
    /\ t'  = [d \in Devices |-> t[d] + 1]
    /\ pc' = [d \in Devices |-> IF t[d] + 1 = config.rollout_length
                                THEN "epoch" ELSE "rollout"]
    /\ UNCHANGED <<key_locals, shuffle_key, upd, epoch, mb>>

\* _update_epoch: key, shuffle_key = jax.random.split(key);
\* minibatches = vmap(sample)(traj_batch, split(shuffle_key,128)), where each
\* sample draws its indices with its key.
EpochKeys ==
    /\ \A d \in Devices : pc[d] = "epoch"
    /\ LET u1 == split(draw, KeysOf(key), 2, 386)
           shuffle(r) == child(draw.next, r, 2, 1)
           u2 == split(u1, {shuffle(r) : r \in Replicas}, CriticMinibatches, 392)
           minibatch_keys ==
               {child(u1.next, r, CriticMinibatches, i) :
                    r \in Replicas, i \in 0..(CriticMinibatches - 1)}
       IN /\ draw' = [consume(u2, minibatch_keys, 159) EXCEPT !.critic_keys = u1.next]
          /\ key'  = [r \in Replicas |-> child(draw.next, r, 2, 0)]
          /\ shuffle_key' = [r \in Replicas |-> shuffle(r)]
    /\ mb' = [d \in Devices |-> 0]
    /\ pc' = [d \in Devices |-> "critic_grads"]
    /\ UNCHANGED <<key_locals, upd, epoch, t>>

\* _update_critics: key, actor_loss_key, critic_loss_key, q_loss_key =
\* jax.random.split(key,4); _critic_loss_fn: policy.entropy(seed=rng_key);
\* _q_loss_fn: sample(batch,rng_key) and next_dist.sample(seed=rng_key).
UpdateCriticsKeys ==
    /\ \A d \in Devices : pc[d] = "critic_grads"
    /\ LET u1 == split(draw, KeysOf(key), 4, 236)
           critic_loss_key == {child(draw.next, r, 4, 2) : r \in Replicas}
           q_loss_key      == {child(draw.next, r, 4, 3) : r \in Replicas}
           u2 == consume(u1, critic_loss_key, 194)
           u3 == consume(u2, q_loss_key, 214)
       IN /\ draw' = consume(u3, q_loss_key, 219)
          /\ key'  = [r \in Replicas |-> child(draw.next, r, 4, 0)]
    /\ mb' = [d \in Devices |-> mb[d] + 1]
    /\ pc' = [d \in Devices |-> IF mb[d] + 1 = CriticMinibatches
                                THEN "advantage" ELSE "critic_grads"]
    /\ UNCHANGED <<key_locals, shuffle_key, upd, epoch, t>>

\* _update_epoch between the scans: entropy = policy.entropy(seed=key);
\* minibatches = vmap(sample)((traj_batch,advantages), split(shuffle_key,32)).
AdvantageKeys ==
    /\ \A d \in Devices : pc[d] = "advantage"
    /\ LET u1 == consume(draw, KeysOf(key), 409)
           u2 == split(u1, KeysOf(shuffle_key), ActorMinibatches, 413)
           minibatch_keys ==
               {child(u1.next, r, ActorMinibatches, i) :
                    r \in Replicas, i \in 0..(ActorMinibatches - 1)}
       IN draw' = [consume(u2, minibatch_keys, 159) EXCEPT !.actor_keys = u1.next]
    /\ mb' = [d \in Devices |-> 0]
    /\ pc' = [d \in Devices |-> "actor_grads"]
    /\ UNCHANGED <<key_locals, key, shuffle_key, upd, epoch, t>>

\* _update_actor: key, actor_loss_key, critic_loss_key, q_loss_key =
\* jax.random.split(key,4); _actor_loss_fn: sample(batch,rng_key),
\* sample(gae,rng_key) and actor_policy.entropy(seed=rng_key). After the last
\* minibatch the epoch scan and learner_fn's scan go on or return.
UpdateActorKeys ==
    /\ \A d \in Devices : pc[d] = "actor_grads"
    /\ LET u1 == split(draw, KeysOf(key), 4, 340)
           actor_loss_key == {child(draw.next, r, 4, 1) : r \in Replicas}
           u2 == consume(u1, actor_loss_key, 316)
           u3 == consume(u2, actor_loss_key, 317)
           last_mb    == \A d \in Devices : mb[d] + 1 = ActorMinibatches
           last_epoch == \A d \in Devices : epoch[d] + 1 = config.epochs
           last_upd   == \A d \in Devices : upd[d] + 1 = config.num_updates_per_eval
       IN /\ draw' = consume(u3, actor_loss_key, 327)
          /\ key'  = [r \in Replicas |-> child(draw.next, r, 4, 0)]
          /\ mb'   = [d \in Devices |-> IF last_mb THEN 0 ELSE mb[d] + 1]
          /\ epoch' = [d \in Devices |->
                          IF ~last_mb THEN epoch[d]
                          ELSE IF last_epoch THEN 0 ELSE epoch[d] + 1]
          /\ upd'  = [d \in Devices |-> IF last_mb /\ last_epoch THEN upd[d] + 1
                                        ELSE upd[d]]
          /\ t'    = [d \in Devices |-> IF last_mb /\ last_epoch THEN 0 ELSE t[d]]
          /\ pc'   = [d \in Devices |->
                         IF ~last_mb THEN "actor_grads"
                         ELSE IF ~last_epoch THEN "epoch"
                         ELSE IF last_upd THEN "done" ELSE "rollout"]
    /\ UNCHANGED <<key_locals, shuffle_key>>

NextKeys ==
    \/ SetupKeys
    \/ EnvStepKeys
    \/ EpochKeys
    \/ UpdateCriticsKeys
    \/ AdvantageKeys
    \/ UpdateActorKeys

SpecKeys == InitKeys /\ [][NextKeys]_vars

\* ------------------------------------------------------- reduction alone
\* The two pmean calls as a function of the gradients the replicas hold: the
\* gradients are drawn from GradValues, one vector per seed.
GradValues == -4..4

grad_vector(k, f) ==
    [r \in Replicas |->
        (random_bits(k, (ReplicaIndex(r) * 3) + f) % Cardinality(GradValues)) - 4]

InitReduce ==
    /\ config \in {c \in Configs : c.seed = 0 /\ c.rollout_length = 1 /\ c.num_envs = 1}
    /\ learner_state = learner_setup(config)
    /\ params        = [r \in Replicas |-> learner_state[r].params]
    /\ opt_states    = [r \in Replicas |-> learner_state[r].opt_states]
    /\ key           = [r \in Replicas |-> learner_state[r].key]
    /\ env_state     = [r \in Replicas |-> learner_state[r].env_state]
    /\ last_timestep = [r \in Replicas |-> learner_state[r].timestep]
    /\ traj_batch    = [r \in Replicas |-> <<>>]
    /\ shuffle_key   = [r \in Replicas |-> 0]
    /\ advantages    = [r \in Replicas |-> <<>>]
    /\ \E k \in 0..(KeyMod - 1) :
          grads = [r \in Replicas |->
                      [critic_grads |-> grad_vector(k, 0)[r],
                       q_grads      |-> grad_vector(k, 1)[r],
                       actor_grads  |-> grad_vector(k, 2)[r],
                       loss_info    |-> 0,
                       step         |-> <<>>]]
    /\ applied       = [r \in Replicas |-> NoApplied]
    /\ scan_info     = [d \in Devices |-> NoInfo]
    /\ loss_info     = [d \in Devices |-> NoInfo]
    /\ epoch_info    = [d \in Devices |-> <<>>]
    /\ episode_info  = [d \in Devices |-> <<>>]
    /\ train_info    = [d \in Devices |-> <<>>]
    /\ pc            = [d \in Devices |-> "reduce"]
    /\ upd           = [d \in Devices |-> 0]
    /\ epoch         = [d \in Devices |-> 0]
    /\ mb            = [d \in Devices |-> 0]
    /\ t             = [d \in Devices |-> 0]
    /\ adv_count     = [d \in Devices |-> 0]
    /\ draw          = NoDraw
    /\ run           = 1
    /\ first         = NoOutput
    /\ orch          = NoOrch

\* pmean over "batch", then pmean over "device", of each gradient.
Reduce ==
    /\ AllArrived("reduce")
    /\ applied' = [r \in Replicas |->
                      [critic_grads |->
                           two_stage_pmean([x \in Replicas |-> grads[x].critic_grads], r),
                       q_grads |->
                           two_stage_pmean([x \in Replicas |-> grads[x].q_grads], r),
                       actor_grads |->
                           two_stage_pmean([x \in Replicas |-> grads[x].actor_grads], r)]]
    /\ pc' = [d \in Devices |-> "reduced"]
    /\ UNCHANGED <<aux, config, learner_state, params, opt_states, key, env_state,
                   last_timestep, traj_batch, shuffle_key, advantages, grads, scan_info,
                   loss_info, epoch_info, episode_info, train_info, upd, epoch, mb, t,
                   adv_count>>

NextReduce == Reduce

SpecReduce == InitReduce /\ [][NextReduce]_vars

\* ---------------------------------------------------------------- replay
\* learner_fn called a second time on the LearnerState of the first call: the
\* LearnerState, the loop counters and the outputs start as they did; what is
\* not part of the LearnerState is left as the first call left it.
Replay ==
    /\ run = 1
    /\ \A d \in Devices : pc[d] = "done"
    /\ first' = [learner_state |-> learner_state, episode_metrics |-> episode_info,
                 train_metrics |-> train_info]
    /\ run' = 2
    /\ learner_state' = learner_setup(config)
    /\ params'        = [r \in Replicas |-> learner_setup(config)[r].params]
    /\ opt_states'    = [r \in Replicas |-> learner_setup(config)[r].opt_states]
    /\ key'           = [r \in Replicas |-> learner_setup(config)[r].key]
    /\ env_state'     = [r \in Replicas |-> learner_setup(config)[r].env_state]
    /\ last_timestep' = [r \in Replicas |-> learner_setup(config)[r].timestep]
    /\ episode_info'  = [d \in Devices |-> <<>>]
    /\ train_info'    = [d \in Devices |-> <<>>]
    /\ pc'            = [d \in Devices |-> "rollout"]
    /\ upd'           = [d \in Devices |-> 0]
    /\ UNCHANGED <<config, traj_batch, shuffle_key, advantages, grads, applied,
                   scan_info, loss_info, epoch_info, epoch, mb, t, adv_count, draw,
                   orch>>

NextReplay == Next \/ Replay

\* The replay is of one call of the update step, for the first seed.
InitReplay == Init /\ config.num_updates_per_eval = 1 /\ config.seed = 0

SpecReplay == InitReplay /\ [][NextReplay]_vars

\* --------------------------------------------------------- run_experiment
\* config.arch.seed of the runs: with the first seed an episode ends in the
\* first rollout of some replica, with the second one in none.
RunSeeds == {0, 37}

\* The configurations run_experiment is called with, valid or not.
RunConfigs ==
    [rollout_length : 0..1, num_envs : {1}, epochs : 0..1, num_minibatches : 0..1,
     num_updates_per_eval : {0}, seed : RunSeeds]

\* check_total_timesteps(config): the counts of the configuration are usable.
check_total_timesteps(c, num_updates, num_evaluation) ==
    /\ c.rollout_length >= 1
    /\ c.num_envs >= 1
    /\ c.epochs >= 1
    /\ c.num_minibatches >= 1
    /\ num_updates >= 1
    /\ num_evaluation >= 1

\* assert config.arch.num_updates >= config.arch.num_evaluation
AssertSkipped(num_updates, num_evaluation) == TRUE
assert_num_updates(num_updates, num_evaluation) == num_updates >= num_evaluation

\* The learner's variables before learner_setup has built them.
NotSetUp ==
    [params     |-> [actor_params |-> 0, critic_params |-> 0, q_params |-> 0],
     opt_states |-> init_opt_states,
     key        |-> 0,
     env_state  |-> <<>>,
     timestep   |-> <<>>]

InitRun ==
    /\ config \in RunConfigs
    /\ learner_state = [r \in Replicas |-> NotSetUp]
    /\ params        = [r \in Replicas |-> NotSetUp.params]
    /\ opt_states    = [r \in Replicas |-> NotSetUp.opt_states]
    /\ key           = [r \in Replicas |-> NotSetUp.key]
    /\ env_state     = [r \in Replicas |-> NotSetUp.env_state]
    /\ last_timestep = [r \in Replicas |-> NotSetUp.timestep]
    /\ traj_batch    = [r \in Replicas |-> <<>>]
    /\ shuffle_key   = [r \in Replicas |-> 0]
    /\ advantages    = [r \in Replicas |-> <<>>]
    /\ grads         = [r \in Replicas |-> NoGrads]
    /\ applied       = [r \in Replicas |-> NoApplied]
    /\ scan_info     = [d \in Devices |-> NoInfo]
    /\ loss_info     = [d \in Devices |-> NoInfo]
    /\ epoch_info    = [d \in Devices |-> <<>>]
    /\ episode_info  = [d \in Devices |-> <<>>]
    /\ train_info    = [d \in Devices |-> <<>>]
    /\ pc            = [d \in Devices |-> "idle"]
    /\ upd           = [d \in Devices |-> 0]
    /\ epoch         = [d \in Devices |-> 0]
    /\ mb            = [d \in Devices |-> 0]
    /\ t             = [d \in Devices |-> 0]
    /\ adv_count     = [d \in Devices |-> 0]
    /\ draw          = NoDraw
    /\ run           = 1
    /\ first         = NoOutput
    /\ \E num_updates \in 0..2, num_evaluation \in 0..2, absolute_metric \in BOOLEAN :
          orch = orch_start(num_updates, num_evaluation, absolute_metric)

\* The learner's variables run_experiment does not touch in a step of its own.
learner_locals == <<traj_batch, shuffle_key, advantages, grads, applied, scan_info,
                    loss_info, epoch_info, epoch, mb, t, adv_count>>

\* config = check_total_timesteps(config) and the assert that follows it.
CheckConfig ==
    /\ orch.pc = "check"
    /\ orch' = IF ~check_total_timesteps(config, orch.num_updates, orch.num_evaluation)
               THEN [orch EXCEPT !.pc = "aborted", !.error = "ConfigError"]
               ELSE IF ~assert_num_updates(orch.num_updates, orch.num_evaluation)
               THEN [orch EXCEPT !.pc = "aborted", !.error = "AssertionError"]
               ELSE [orch EXCEPT !.pc = "make"]
    /\ UNCHANGED <<config, learner_state, params, opt_states, key, env_state,
                   last_timestep, episode_info, train_info, pc, upd, learner_locals,
                   draw, run, first>>

\* env, eval_env = environments.make(config); the PRNG keys; learner_setup,
\* which builds the LearnerState and places it on the devices; evaluator_setup.
SetupLearner ==
    /\ orch.pc = "make"
    /\ learner_state' = learner_setup(config)
    /\ params'        = [r \in Replicas |-> learner_setup(config)[r].params]
    /\ opt_states'    = [r \in Replicas |-> learner_setup(config)[r].opt_states]
    /\ key'           = [r \in Replicas |-> learner_setup(config)[r].key]
    /\ env_state'     = [r \in Replicas |-> learner_setup(config)[r].env_state]
    /\ last_timestep' = [r \in Replicas |-> learner_setup(config)[r].timestep]
    /\ orch' = [orch EXCEPT !.pc = "updates_per_eval",
                            !.device_work = @ \cup {"environments", "learner_state"},
                            !.key_e = random_split(PRNGKey(config.seed), 4, 1),
                            !.trained_params = init_params(config).actor_params]
    /\ UNCHANGED <<config, episode_info, train_info, pc, upd, learner_locals, draw, run,
                   first>>

\* config.arch.num_updates_per_eval = num_updates // num_evaluation, which
\* raises ZeroDivisionError for num_evaluation = 0; then the logger, the
\* checkpointer, max_episode_return and best_params.
UpdatesPerEval ==
    /\ orch.pc = "updates_per_eval"
    /\ IF orch.num_evaluation = 0
       THEN /\ orch' = [orch EXCEPT !.pc = "aborted", !.error = "ZeroDivisionError"]
            /\ UNCHANGED config
       ELSE /\ config' = [config EXCEPT !.num_updates_per_eval =
                                            orch.num_updates \div orch.num_evaluation]
            /\ orch' = [orch EXCEPT !.pc = "loop",
                                    !.max_episode_return = InitialMaxReturn,
                                    !.best_params = orch.trained_params]
    /\ UNCHANGED <<learner_state, params, opt_states, key, env_state, last_timestep,
                   episode_info, train_info, pc, upd, learner_locals, draw, run, first>>

\* for eval_step in range(config.arch.num_evaluation):
\*     learner_output = learn(learner_state)
CallLearn ==
    /\ orch.pc = "loop"
    /\ orch.eval_step < orch.num_evaluation
    /\ pc' = [d \in Devices |-> "rollout"]
    /\ upd' = [d \in Devices |-> 0]
    /\ episode_info' = [d \in Devices |-> <<>>]
    /\ train_info' = [d \in Devices |-> <<>>]
    /\ orch' = [orch EXCEPT !.pc = "learn", !.device_work = @ \cup {"learn"}]
    /\ UNCHANGED <<config, learner_state, params, opt_states, key, env_state,
                   last_timestep, learner_locals, draw, run, first>>

\* episode_metrics, ep_completed = get_final_step_metrics(...): ep_completed
\* tells whether any entry of the episode metrics is a terminal step.
get_final_step_metrics(metrics) ==
    \E d \in Devices : \E k \in 1..Len(metrics[d]) : \E b \in Batches :
        \E i \in 1..Len(metrics[d][k][b]) : metrics[d][k][b][i].is_terminal_step

\* The events logged after learn has returned: MISC, ACT if an episode was
\* completed, TRAIN.
LogActAlways(ep_completed) == <<"MISC", "ACT", "TRAIN">>
train_events(ep_completed) ==
    IF ep_completed THEN <<"MISC", "ACT", "TRAIN">> ELSE <<"MISC", "TRAIN">>

\* jax.block_until_ready(learner_output) and the logging of the training.
LogTraining ==
    /\ orch.pc = "learn"
    /\ \A d \in Devices : pc[d] = "done"
    /\ LET ep_completed == get_final_step_metrics(episode_info)
           events == train_events(ep_completed)
       IN orch' = [orch EXCEPT
                      !.pc = "evaluate",
                      !.ep_completed = Append(@, ep_completed),
                      !.log = @ \o [i \in 1..Len(events) |-> <<orch.eval_step, events[i]>>]]
    /\ UNCHANGED <<config, learner_state, params, opt_states, key, env_state,
                   last_timestep, episode_info, train_info, pc, upd, learner_locals,
                   draw, run, first>>

\* The evaluation environment's episodes, an input of the evaluation.
EvalEpisodes == 0..4

\* evaluator(trained_params, eval_keys): the mean episode return of the
\* evaluation episodes, which lies below, at or above the initial
\* max_episode_return.
evaluator(actor_params, eval_key, episodes) ==
    (((((actor_params * 3) + eval_key + episodes) % 5) - 2) * (-InitialMaxReturn))

\* The evaluation of the trained actor parameters and its EVAL event; returns
\* and evaluated keep what every iteration evaluated.
Evaluate ==
    /\ orch.pc = "evaluate"
    /\ \E episodes \in EvalEpisodes :
        LET trained_params == learner_state[<<1, 1>>].params.actor_params
            eval_key == random_split(orch.key_e, NumDevices + 1, 1)
            episode_return == evaluator(trained_params, eval_key, episodes)
        IN orch' = [orch EXCEPT
                       !.pc = "track",
                       !.trained_params = trained_params,
                       !.key_e = random_split(orch.key_e, NumDevices + 1, 0),
                       !.episode_return = episode_return,
                       !.returns = Append(@, episode_return),
                       !.evaluated = Append(@, trained_params),
                       !.log = Append(@, <<orch.eval_step, "EVAL">>)]
    /\ UNCHANGED <<config, learner_state, params, opt_states, key, env_state,
                   last_timestep, episode_info, train_info, pc, upd, learner_locals,
                   draw, run, first>>

\* The comparison of the best-parameter update:
\* max_episode_return <= episode_return.
StrictlyBetter(max_episode_return, episode_return) == max_episode_return < episode_return
not_worse(max_episode_return, episode_return) == max_episode_return <= episode_return

\* if config.arch.absolute_metric and max_episode_return <= episode_return:
\*     best_params, max_episode_return = trained_params, episode_return
\* learner_state = learner_output.learner_state, and the next iteration.
TrackBest ==
    /\ orch.pc = "track"
    /\ LET better == /\ orch.absolute_metric
                     /\ not_worse(orch.max_episode_return, orch.episode_return)
       IN orch' = [orch EXCEPT
                      !.pc = "loop",
                      !.eval_step = @ + 1,
                      !.best_params = IF better THEN orch.trained_params ELSE @,
                      !.max_episode_return = IF better THEN orch.episode_return ELSE @]
    /\ UNCHANGED <<config, learner_state, params, opt_states, key, env_state,
                   last_timestep, episode_info, train_info, pc, upd, learner_locals,
                   draw, run, first>>

\* After the loop: the absolute metric of best_params, if asked for, and
\* logger.stop().
StopRun ==
    /\ orch.pc = "loop"
    /\ orch.eval_step >= orch.num_evaluation
    /\ orch' = [orch EXCEPT
                   !.pc = "stopped",
                   !.log = IF orch.absolute_metric
                           THEN Append(@, <<orch.eval_step, "ABSOLUTE">>) ELSE @]
    /\ UNCHANGED <<config, learner_state, params, opt_states, key, env_state,
                   last_timestep, episode_info, train_info, pc, upd, learner_locals,
                   draw, run, first>>

NextRun ==
    \/ CheckConfig
    \/ SetupLearner
    \/ UpdatesPerEval
    \/ CallLearn
    \/ Next
    \/ LogTraining
    \/ Evaluate
    \/ TrackBest
    \/ StopRun

SpecRun == InitRun /\ [][NextRun]_vars

\* ================================================================ claims
\* Epochs device d has completed since setup.
EpochsDone(d) == (upd[d] * config.epochs) + epoch[d]

CriticCount(st, r) == st[r].critic_opt_state.count
QCount(st, r)      == st[r].q_opt_state.count
ActorCount(st, r)  == st[r].actor_opt_state.count

RECURSIVE SumOver(_, _)
SumOver(S, x) ==
    IF S = {} THEN 0
    ELSE LET r == CHOOSE e \in S : TRUE IN x[r] + SumOver(S \ {r}, x)

\* The arithmetic mean of one value per replica.
ArithMean(x) == Rat(SumOver(Replicas, x), Cardinality(Replicas))

\* C1: in every epoch of every update step the phases run in the order
\* critic/Q scan, advantage refresh, actor scan. A critic/Q step is taken only
\* when every actor step of the earlier epochs is done and this epoch's
\* advantages are not yet refreshed; the refresh is taken only after the 128th
\* critic/Q step of the epoch and before any of its actor steps; an actor step
\* is taken only after that refresh; and once the last epoch is complete no
\* further gradient step or refresh is taken in that update step.
C1_PhaseOrder ==
    [][\A r \in Replicas :
        LET d == r[1]
            c == CriticCount(opt_states, r)
            a == ActorCount(opt_states, r)
        IN /\ (CriticCount(opt_states', r) # c \/ QCount(opt_states', r) # QCount(opt_states, r))
                => /\ epoch[d] < config.epochs
                   /\ a = 32 * EpochsDone(d)
                   /\ c < 128 * (EpochsDone(d) + 1)
                   /\ adv_count[d] = epoch[d]
           /\ (adv_count'[d] > adv_count[d])
                => /\ epoch[d] < config.epochs
                   /\ c = 128 * (EpochsDone(d) + 1)
                   /\ a = 32 * EpochsDone(d)
                   /\ adv_count[d] = epoch[d]
           /\ (ActorCount(opt_states', r) # a)
                => /\ epoch[d] < config.epochs
                   /\ c = 128 * (EpochsDone(d) + 1)
                   /\ a < 32 * (EpochsDone(d) + 1)
                   /\ adv_count[d] = epoch[d] + 1
           /\ (epoch[d] = config.epochs)
                => /\ opt_states'[r] = opt_states[r]
                   /\ params'[r] = params[r]
                   /\ adv_count'[d] <= adv_count[d]]_vars

\* C1 witness: a device in the critic/Q scan of its second epoch, after the 32
\* actor steps of the first.
C1_Witness ==
    \E d \in Devices :
        /\ epoch[d] = 1 /\ pc[d] = "critic_sync" /\ mb[d] = 3
        /\ ActorCount(opt_states, <<d, 1>>) = 32
        /\ CriticCount(opt_states, <<d, 1>>) = 131

\* C2: all replicas, on the batch axis and on the device axis, hold the same
\* parameters and optimizer states at all times.
C2_ReplicaAgreement ==
    \A r1, r2 \in Replicas :
        /\ params[r1] = params[r2]
        /\ opt_states[r1] = opt_states[r2]

\* C2 witness: a critic/Q update has just been applied to gradients that differ
\* between two replicas of one device and between two devices, computed from
\* different keys and environment states.
C2_Witness ==
    /\ \A d \in Devices : pc[d] = "critic_grads" /\ mb[d] >= 1
    /\ \E r1, r2 \in Replicas :
        /\ r1[1] = r2[1]
        /\ grads[r1].critic_grads # grads[r2].critic_grads
    /\ \E r1, r2 \in Replicas :
        /\ r1[1] # r2[1]
        /\ grads[r1].q_grads # grads[r2].q_grads
        /\ key[r1] # key[r2]
        /\ env_state[r1] # env_state[r2]
    /\ \A r1, r2 \in Replicas : params[r1] = params[r2]

\* C3: whenever an optimizer state changes, every replica has contributed the
\* gradient of this very gradient step, and the gradient handed to the update
\* of every replica is the mean over all replicas (batch axis, then device
\* axis) of those gradients.
C3_ReductionBarrier ==
    [][(\E r \in Replicas : opt_states'[r] # opt_states[r]) =>
        \E scan \in {"critic", "actor"} :
            /\ \A r \in Replicas : grads[r].step = StepOf(r[1], scan)
            /\ scan = "critic" => \A r \in Replicas :
                /\ opt_states'[r].critic_opt_state =
                     update_fn(ArithMean([x \in Replicas |-> grads[x].critic_grads]),
                               opt_states[r].critic_opt_state).opt_state
                /\ opt_states'[r].q_opt_state =
                     update_fn(ArithMean([x \in Replicas |-> grads[x].q_grads]),
                               opt_states[r].q_opt_state).opt_state
            /\ scan = "actor" => \A r \in Replicas :
                opt_states'[r].actor_opt_state =
                    update_fn(ArithMean([x \in Replicas |-> grads[x].actor_grads]),
                              opt_states[r].actor_opt_state).opt_state]_vars

\* C3 witness: an actor update has just been applied to gradients that differ
\* between replicas, so that the mean is none of them.
C3_Witness ==
    /\ \A d \in Devices : pc[d] = "actor_grads" /\ mb[d] >= 1
    /\ \E r1, r2 \in Replicas : grads[r1].actor_grads # grads[r2].actor_grads
    /\ \A r \in Replicas :
        /\ applied[r].actor_grads # RatOfInt(grads[r].actor_grads)
        /\ applied[r].actor_grads = ArithMean([x \in Replicas |-> grads[x].actor_grads])

InEpochScan(d) ==
    pc[d] \in {"epoch", "critic_grads", "critic_sync", "advantage", "actor_grads",
               "actor_sync"}

\* C6: the advantages are refreshed exactly once per epoch (the refresh of
\* epoch e is refresh number e of the update step), after the last critic/Q
\* step of that epoch and before its first actor step, over the whole flat
\* buffer, from the critic and Q parameters that last critic/Q step produced
\* and the actor parameters left by the previous epoch; every actor step works
\* with the advantages of its own epoch's refresh, and nothing else changes
\* the advantages.
C6_AdvantageFreshness ==
    [][\A r \in Replicas :
        LET d == r[1]
        IN /\ (adv_count'[d] > adv_count[d])
                => /\ adv_count'[d] = epoch[d] + 1
                   /\ CriticCount(opt_states, r) = 128 * (EpochsDone(d) + 1)
                   /\ QCount(opt_states, r) = 128 * (EpochsDone(d) + 1)
                   /\ ActorCount(opt_states, r) = 32 * EpochsDone(d)
                   /\ Len(traj_batch[r]) = size
                   /\ Len(advantages'[r]) = size
                   /\ \A i \in 1..size :
                        advantages'[r][i] =
                            advantage_of(params[r], traj_batch[r][i], key[r], i)
           /\ (ActorCount(opt_states', r) # ActorCount(opt_states, r))
                => /\ adv_count[d] = epoch[d] + 1
                   /\ advantages'[r] = advantages[r]
           /\ (adv_count'[d] = adv_count[d]) => advantages'[r] = advantages[r]]_vars

\* C6 witness: the second epoch's refresh has just run and its advantages are
\* not those the rollout-time parameters give.
C6_Witness ==
    \E r \in Replicas :
        /\ adv_count[r[1]] = 2 /\ epoch[r[1]] = 1
        /\ pc[r[1]] = "actor_grads" /\ mb[r[1]] = 0
        /\ advantages[r] # compute_advantages(learner_state[r].params, traj_batch[r], key[r])

\* C7: from the end of the rollout to the end of the update step the flat
\* trajectory buffer, the environment state and the last timestep do not
\* change, and the LearnerState the update step returns holds that
\* environment state and timestep; it is the only place the LearnerState
\* changes.
C7_TrajectoryFrame ==
    [][\A r \in Replicas :
        LET d == r[1]
        IN /\ InEpochScan(d) => traj_batch'[r] = traj_batch[r]
           /\ (InEpochScan(d) \/ pc[d] = "finish"
               \/ (pc[d] = "rollout" /\ t[d] = config.rollout_length))
                => /\ env_state'[r] = env_state[r]
                   /\ last_timestep'[r] = last_timestep[r]
           /\ (upd'[d] # upd[d])
                => /\ learner_state'[r].env_state = env_state[r]
                   /\ learner_state'[r].timestep = last_timestep[r]
           /\ (learner_state'[r] # learner_state[r]) => upd'[d] = upd[d] + 1]_vars

\* C7 witness: an update step of two epochs has returned a LearnerState whose
\* environment state is the one the rollout left, not the one it started from.
C7_Witness ==
    \E r \in Replicas :
        /\ pc[r[1]] = "done" /\ config.epochs = 2
        /\ learner_state[r].env_state = env_state[r]
        /\ learner_state[r].env_state # learner_setup(config)[r].env_state
        /\ learner_state[r].timestep # learner_setup(config)[r].timestep

\* C8: a step that changes the critic or the Q group leaves the actor's
\* parameters and optimizer state alone and replaces each of the critic's and
\* Q's parameters together with its own optimizer state, both results of
\* update_fn on that group's reduced gradient and that group's old optimizer
\* state; a step that changes the actor group leaves the critic's and Q's
\* alone and replaces the actor's pair in the same way.
C8_PathwayIsolation ==
    [][\A r \in Replicas :
        LET p  == params[r]
            p2 == params'[r]
            o  == opt_states[r]
            o2 == opt_states'[r]
            g  == applied'[r]
            critic_changed == p2.critic_params # p.critic_params
                              \/ o2.critic_opt_state # o.critic_opt_state
            q_changed      == p2.q_params # p.q_params \/ o2.q_opt_state # o.q_opt_state
            actor_changed  == p2.actor_params # p.actor_params
                              \/ o2.actor_opt_state # o.actor_opt_state
            c == update_fn(g.critic_grads, o.critic_opt_state)
            q == update_fn(g.q_grads, o.q_opt_state)
            a == update_fn(g.actor_grads, o.actor_opt_state)
        IN /\ (critic_changed \/ q_changed)
                => /\ ~actor_changed
                   /\ o2.critic_opt_state = c.opt_state
                   /\ p2.critic_params = apply_updates(p.critic_params, c.updates)
                   /\ o2.q_opt_state = q.opt_state
                   /\ p2.q_params = apply_updates(p.q_params, q.updates)
           /\ actor_changed
                => /\ ~critic_changed /\ ~q_changed
                   /\ o2.actor_opt_state = a.opt_state
                   /\ p2.actor_params = apply_updates(p.actor_params, a.updates)]_vars

\* C8 witness: an actor step has just been applied while the three optimizer
\* states differ from one another.
C8_Witness ==
    \E r \in Replicas :
        /\ pc[r[1]] = "actor_grads" /\ mb[r[1]] >= 1
        /\ opt_states[r].critic_opt_state.mu # opt_states[r].q_opt_state.mu
        /\ opt_states[r].actor_opt_state.mu # opt_states[r].critic_opt_state.mu
        /\ applied[r].actor_grads # RatOfInt(0)
        /\ params[r].critic_params # learner_state[r].params.critic_params

\* C9: every index a minibatch draw produces lies in [0, size), where
\* size = rollout_length * num_envs.
C9_IndicesInRange ==
    \A j \in DOMAIN draw.idx : draw.idx[j] >= 0 /\ draw.idx[j] < size

\* C9 witness: a draw of 512 indices over a buffer of more than one element
\* that hits both ends of the range.
C9_Witness ==
    /\ Len(draw.idx) = MinibatchSize
    /\ size > 1
    /\ \E j \in DOMAIN draw.idx : draw.idx[j] = 0
    /\ \E j \in DOMAIN draw.idx : draw.idx[j] = size - 1

GradNames == {"critic_grads", "q_grads", "actor_grads"}

\* The mean over the device axis first and then over the batch axis.
MeanDeviceFirst(x) ==
    Mean([b \in Batches |-> Mean([d \in Devices |-> RatOfInt(x[<<d, b>>])])])

\* The two-stage mean with the replicas of both axes taken in reverse order.
MeanReversed(x) ==
    Mean([d \in Devices |->
            Mean([b \in Batches |->
                    RatOfInt(x[<<(NumDevices + 1) - d, (UpdateBatchSize + 1) - b>>])])])

EnvInstances == {<<r, n>> : r \in Replicas, n \in 1..config.num_envs}

\* C12: learner_setup gives every replica its own step key and every
\* environment instance its own reset key, and the LearnerState it builds holds
\* them; afterwards a replica's key changes only to a split of its own key,
\* its shuffle key is a split of its own key, its environments are stepped
\* from its own environment states with actions drawn from its own key,
\* parameters and last observations, and its parameters and optimizer states
\* change only in a reduction that every device has reached.
C12_ReplicaOwnership ==
    /\ [](/\ \A r1, r2 \in Replicas :
                r1 # r2 => step_key(config, r1) # step_key(config, r2)
          /\ \A e1, e2 \in EnvInstances :
                e1 # e2 => env_key(config, e1[1], e1[2]) # env_key(config, e2[1], e2[2])
          /\ (\A d \in Devices : upd[d] = 0) =>
                \A r \in Replicas :
                    /\ learner_state[r].key = step_key(config, r)
                    /\ \A n \in 1..config.num_envs :
                        learner_state[r].env_state[n] = env_reset(env_key(config, r, n))[1])
    /\ [][\A r \in Replicas :
            LET d == r[1]
            IN /\ (key'[r] # key[r])
                    => key'[r] \in {random_split(key[r], 2, 0), random_split(key[r], 4, 0)}
               /\ (shuffle_key'[r] # shuffle_key[r])
                    => shuffle_key'[r] = random_split(key[r], 2, 1)
               /\ (env_state'[r] # env_state[r] \/ last_timestep'[r] # last_timestep[r])
                    => /\ pc[d] = "rollout"
                       /\ \A n \in 1..config.num_envs :
                            LET tr == traj_batch'[r][Len(traj_batch'[r])][n]
                                st == env_step(env_state[r][n], tr.action)
                            IN /\ tr.obs = last_timestep[r][n].observation
                               /\ tr.action =
                                    policy_sample(params[r].actor_params, tr.obs,
                                                  random_split(key[r], 2, 1), n)
                               /\ env_state'[r][n] = st[1]
                               /\ last_timestep'[r][n] = st[2]
               /\ (params'[r] # params[r] \/ opt_states'[r] # opt_states[r])
                    => (AllArrived("critic_sync") \/ AllArrived("actor_sync"))]_vars

\* C12 witness: after a reduction, all replicas hold keys that differ from
\* one another and from those of setup, and replicas of two devices hold
\* environment states that differ from one another and from those of setup.
C12_Witness ==
    /\ \A d \in Devices : pc[d] = "critic_grads" /\ mb[d] >= 1
    /\ \A r1, r2 \in Replicas : r1 # r2 => key[r1] # key[r2]
    /\ \A r \in Replicas : key[r] # step_key(config, r)
    /\ env_state[<<1, 1>>] # env_state[<<2, 1>>]
    /\ \E r \in Replicas : env_state[r] # learner_setup(config)[r].env_state

\* C13: every environment step of an update step is taken before its first
\* gradient step, with the parameters and optimizer states the update step
\* started from, which it leaves as they are: the value and log_prob of the
\* recorded transition are those of these parameters; a gradient step is
\* taken, and the update step returns, only after exactly rollout_length
\* environment steps, over a buffer of rollout_length * num_envs transitions.
C13_RolloutBeforeLearning ==
    [][\A r \in Replicas :
        LET d == r[1]
            start == learner_state[r]
        IN /\ (t'[d] = t[d] + 1)
                => /\ t[d] < config.rollout_length
                   /\ params[r] = start.params /\ opt_states[r] = start.opt_states
                   /\ params'[r] = params[r] /\ opt_states'[r] = opt_states[r]
                   /\ learner_state'[r] = start
                   /\ Len(traj_batch'[r]) = t'[d]
                   /\ \A n \in 1..config.num_envs :
                        LET tr == traj_batch'[r][t'[d]][n]
                        IN /\ tr.value = critic_apply_fn(start.params.critic_params, tr.obs)
                           /\ tr.log_prob =
                                policy_log_prob(start.params.actor_params, tr.obs, tr.action)
           /\ (opt_states'[r] # opt_states[r] \/ params'[r] # params[r])
                => /\ t[d] = config.rollout_length
                   /\ Len(traj_batch[r]) = size
           /\ (upd'[d] # upd[d])
                => /\ t[d] = config.rollout_length
                   /\ t'[d] = 0]_vars

\* C13 witness: the first gradient step after a rollout of two environment
\* steps whose two transitions were recorded at different observations.
C13_Witness ==
    \E r \in Replicas :
        /\ config.rollout_length = 2 /\ t[r[1]] = 2
        /\ pc[r[1]] = "critic_sync" /\ mb[r[1]] = 0 /\ epoch[r[1]] = 0
        /\ Len(traj_batch[r]) = 2
        /\ traj_batch[r][1].obs # traj_batch[r][2].obs
        /\ params[r] = learner_state[r].params

\* The steps one epoch takes on a device: its key split, two per critic/Q
\* minibatch, the refresh, two per actor minibatch.
EpochSteps == 1 + (2 * CriticMinibatches) + 1 + (2 * ActorMinibatches)

\* The steps one update step takes on a device.
UpdateSteps == config.rollout_length + 1 + (config.epochs * EpochSteps) + 1

\* The steps device d has left in its current update step.
StepsLeftInUpdate(d) ==
    LET later == 1 + (((config.epochs - epoch[d]) - 1) * EpochSteps)
    IN CASE pc[d] = "rollout"      -> UpdateSteps - t[d]
         [] pc[d] = "epoch"        -> later + EpochSteps
         [] pc[d] = "critic_grads" -> later + (EpochSteps - 1) - (2 * mb[d])
         [] pc[d] = "critic_sync"  -> later + (EpochSteps - 2) - (2 * mb[d])
         [] pc[d] = "advantage"    -> later + 1 + (2 * ActorMinibatches)
         [] pc[d] = "actor_grads"  -> later + (2 * ActorMinibatches) - (2 * mb[d])
         [] pc[d] = "actor_sync"   -> later + ((2 * ActorMinibatches) - 1) - (2 * mb[d])
         [] pc[d] = "finish"       -> 1
         [] OTHER                  -> 0

\* The steps device d has left before learner_fn returns.
StepsLeft(d) ==
    IF pc[d] = "done" THEN 0
    ELSE (((config.num_updates_per_eval - upd[d]) - 1) * UpdateSteps) + StepsLeftInUpdate(d)

\* The guards of the actions: some device has a step to take.
HasStep ==
    \/ \E d \in Devices :
        \/ pc[d] = "rollout" /\ (t[d] < config.rollout_length \/ rollout_done(d))
        \/ pc[d] \in {"epoch", "critic_grads", "advantage", "actor_grads", "finish"}
    \/ AllArrived("critic_sync")
    \/ AllArrived("actor_sync")

\* C14: learner_fn returns after exactly num_updates_per_eval update steps:
\* every device always has a step to take until it has returned, every step
\* brings every device it moves closer to the return by one, and a device has
\* returned exactly when it has completed num_updates_per_eval update steps;
\* the stacked episode and train metrics hold one entry per completed update
\* step, appended in update order, the entry of an update step being the
\* metrics of its own trajectory and epochs; an update step starts from the
\* LearnerState the previous one returned (the initial one for the first);
\* after the return nothing changes.
C14_LearnerFnScan ==
    /\ [](/\ (\E d \in Devices : pc[d] # "done") => HasStep
          /\ \A d \in Devices :
                /\ upd[d] <= config.num_updates_per_eval
                /\ (pc[d] = "done") <=> (upd[d] = config.num_updates_per_eval)
                /\ StepsLeft(d) >= 0
                /\ (StepsLeft(d) = 0) <=> (pc[d] = "done")
                /\ Len(episode_info[d]) = upd[d]
                /\ Len(train_info[d]) = upd[d])
    /\ [][/\ \E d \in Devices : StepsLeft(d)' = StepsLeft(d) - 1
          /\ \A d \in Devices : StepsLeft(d)' \in {StepsLeft(d), StepsLeft(d) - 1}
          /\ \A r \in Replicas :
            LET d == r[1]
            IN /\ (upd'[d] # upd[d])
                    => /\ upd'[d] = upd[d] + 1
                       /\ SubSeq(episode_info'[d], 1, upd[d]) = episode_info[d]
                       /\ SubSeq(train_info'[d], 1, upd[d]) = train_info[d]
                       /\ train_info'[d][upd'[d]] = epoch_info[d]
                       /\ Len(episode_info'[d][upd'[d]][r[2]]) = Len(traj_batch[r])
                       /\ \A i \in 1..Len(traj_batch[r]) :
                            episode_info'[d][upd'[d]][r[2]][i] = traj_batch[r][i].info
               /\ (t[d] = 0 /\ t'[d] = 1)
                    => /\ params[r] = learner_state[r].params
                       /\ opt_states[r] = learner_state[r].opt_states
                       /\ key[r] = learner_state[r].key
                       /\ env_state[r] = learner_state[r].env_state
                       /\ last_timestep[r] = learner_state[r].timestep
               /\ (pc[d] = "done")
                    => /\ pc'[d] = "done" /\ learner_state'[r] = learner_state[r]
                       /\ episode_info'[d] = episode_info[d]
                       /\ train_info'[d] = train_info[d]]_vars

\* C14 witness: learner_fn has returned after two update steps whose metrics
\* differ, from a LearnerState that is not the initial one.
C14_Witness ==
    /\ config.num_updates_per_eval = 2
    /\ \A d \in Devices :
        /\ pc[d] = "done" /\ upd[d] = 2
        /\ Len(episode_info[d]) = 2 /\ Len(train_info[d]) = 2
        /\ train_info[d][1] # train_info[d][2]
    /\ \E d \in Devices : episode_info[d][1] # episode_info[d][2]
    /\ \A r \in Replicas : learner_state[r].params # learner_setup(config)[r].params

\* C15: the transition an environment step records has done true exactly
\* when the discount of the timestep the environment returned is 0, and
\* truncated true exactly when that timestep is a last step with a nonzero
\* discount; no transition of the buffer has both.
C15_DoneTruncated ==
    /\ [](\A r \in Replicas :
            pc[r[1]] # "rollout" =>
                \A i \in 1..Len(traj_batch[r]) :
                    ~(traj_batch[r][i].done /\ traj_batch[r][i].truncated))
    /\ [][\A r \in Replicas :
            (t'[r[1]] = t[r[1]] + 1) =>
                \A n \in 1..config.num_envs :
                    LET tr == traj_batch'[r][t'[r[1]]][n]
                        timestep == last_timestep'[r][n]
                    IN /\ tr.done <=> (timestep.discount = 0)
                       /\ tr.truncated <=> (timestep.last /\ timestep.discount # 0)
                       /\ ~(tr.done /\ tr.truncated)]_vars

\* C15 witness: a buffer that holds a transition of a terminated episode, one
\* of a truncated episode and one of a running episode.
C15_Witness ==
    \E r1, r2, r3 \in Replicas :
        /\ \A d \in Devices : pc[d] = "epoch"
        /\ \E i \in 1..Len(traj_batch[r1]) :
            traj_batch[r1][i].done /\ ~traj_batch[r1][i].truncated
        /\ \E i \in 1..Len(traj_batch[r2]) :
            traj_batch[r2][i].truncated /\ ~traj_batch[r2][i].done
        /\ \E i \in 1..Len(traj_batch[r3]) :
            ~traj_batch[r3][i].truncated /\ ~traj_batch[r3][i].done

\* C16 as stated: the episode metrics an update step returns hold entries
\* only for environments whose done flag was true at least once in the
\* rollout of that update step.
C16_OnlyDoneEnvs ==
    [][\A r \in Replicas :
        LET d == r[1]
        IN (upd'[d] # upd[d]) =>
            \A i \in 1..Len(episode_info'[d][upd'[d]][r[2]]) :
                \E j \in 1..Len(traj_batch[r]) :
                    env_of(j) = env_of(i) /\ traj_batch[r][j].done]_vars

\* C16 amended: the episode metrics an update step returns are the info of
\* every transition of the buffer, one entry per environment and rollout step
\* (rollout_length * num_envs per replica) in buffer order, whether or not the
\* environment finished an episode; an entry tells by is_terminal_step
\* whether its step ended an episode, by termination or by truncation.
C16_AllTransitionsReported ==
    [][\A r \in Replicas :
        LET d == r[1]
            metric == episode_info'[d][upd'[d]][r[2]]
        IN (upd'[d] # upd[d]) =>
            /\ Len(metric) = size
            /\ Len(traj_batch[r]) = size
            /\ \A i \in 1..size :
                /\ metric[i] = traj_batch[r][i].info
                /\ metric[i].is_terminal_step
                     <=> (traj_batch[r][i].done \/ traj_batch[r][i].truncated)]_vars

\* C16 witness: learner_fn has returned episode metrics with an entry for every
\* transition of a replica none of whose environments ended an episode.
C16_Witness ==
    \E d \in Devices : \E b \in Batches :
        /\ pc[d] = "done"
        /\ Len(episode_info[d][1][b]) = size
        /\ \A i \in 1..size : ~episode_info[d][1][b][i].is_terminal_step

\* The names of the events logged for iteration e of the loop, in log order.
EventsOf(e) ==
    LET mine == SelectSeq(orch.log, LAMBDA x : x[1] = e)
    IN [i \in 1..Len(mine) |-> mine[i][2]]

Logged(e, event) == \E i \in 1..Len(EventsOf(e)) : EventsOf(e)[i] = event

\* C17: for every iteration of the loop whose training has been logged, the ACT
\* event is in the log exactly when ep_completed was true, the MISC and TRAIN
\* events are in the log either way, and so is the EVAL event once the
\* iteration is over; ep_completed is true exactly when some entry of the
\* episode metrics learn returned is the last step of an episode.
C17_ActOnlyIfCompleted ==
    /\ \A e \in 1..Len(orch.ep_completed) :
        /\ Logged(e - 1, "ACT") <=> orch.ep_completed[e]
        /\ Logged(e - 1, "MISC")
        /\ Logged(e - 1, "TRAIN")
        /\ (orch.eval_step >= e) => Logged(e - 1, "EVAL")
    /\ (orch.pc = "evaluate") =>
        (orch.ep_completed[Len(orch.ep_completed)]
            <=> \E d \in Devices : \E k \in 1..Len(episode_info[d]) : \E b \in Batches :
                    \E i \in 1..Len(episode_info[d][k][b]) :
                        episode_info[d][k][b][i].is_terminal_step)

\* C17 witness: a run of two iterations has stopped; no episode ended in the
\* rollouts of one of them, which has its MISC, TRAIN and EVAL events and no
\* ACT event, and an episode ended in the other, which has all four.
C17_Witness ==
    /\ orch.pc = "stopped" /\ orch.num_evaluation = 2
    /\ \E e1, e2 \in 1..2 :
        /\ ~orch.ep_completed[e1] /\ EventsOf(e1 - 1) = <<"MISC", "TRAIN", "EVAL">>
        /\ orch.ep_completed[e2] /\ EventsOf(e2 - 1) = <<"MISC", "ACT", "TRAIN", "EVAL">>

\* The configuration is in error: a count below one, or fewer updates than
\* evaluations.
ConfigInError ==
    \/ config.rollout_length < 1 \/ config.epochs < 1 \/ config.num_minibatches < 1
    \/ orch.num_evaluation < 1
    \/ orch.num_updates < orch.num_evaluation

AtLoss == \A d \in Devices : pc[d] = "loss"

\* How often the transition of flat index i occurs among the 512 of x.
Count(x, i) == Cardinality({j \in 1..MinibatchSize : x[j].index = i})

SameMultiset(x, y) == \A i \in 1..size : Count(x, i) = Count(y, i)

\* C19: in a gradient step of the critic/Q scan the critic loss and the Q loss
\* compute on the same multiset of transitions, the minibatch of that step.
C19_SameMinibatch ==
    AtLoss => /\ SameMultiset(draw.critic, draw.critic_minibatch)
              /\ SameMultiset(draw.q, draw.critic_minibatch)

\* Every element of a batch is the advantage of the transition at its position.
Paired(batch, adv) ==
    /\ Len(batch) = Len(adv)
    /\ \A j \in 1..Len(batch) : adv[j].of = batch[j].index

\* C20: the minibatch the actor scan hands to _update_actor pairs every
\* transition with the advantage of that transition, and so does the second
\* draw inside the actor loss.
C20_AdvantagePairing ==
    /\ Paired(draw.actor_minibatch.batch, draw.actor_minibatch.advantages)
    /\ Paired(draw.actor.batch, draw.actor.adv_sample)

\* C20 witness: the actor loss has drawn its 512 transitions and advantages
\* from a minibatch over a buffer of several transitions; the second draw
\* changed the minibatch and the result holds different transitions.
C20_Witness ==
    /\ AtLoss /\ size > 1
    /\ Len(draw.actor.batch) = MinibatchSize
    /\ \E j \in 1..MinibatchSize :
          draw.actor.batch[j] # draw.actor_minibatch.batch[j]
    /\ \E i, j \in 1..MinibatchSize : draw.actor.batch[i] # draw.actor.batch[j]

\* The names of the loss metrics of the two phases of an epoch.
CriticPhaseMetrics == {"value_loss", "q_loss"}
ActorPhaseMetrics  == {"actor_loss", "entropy"}

\* C21: the loss metrics an update step returns hold, for each of its epochs,
\* the metrics of the critic/Q phase (value loss and Q loss) and those of the
\* actor phase.
C21_AllPhaseMetrics ==
    \A d \in Devices : \A k \in 1..Len(train_info[d]) :
        /\ Len(train_info[d][k]) = config.epochs
        /\ \A e \in 1..Len(train_info[d][k]) :
              /\ ActorPhaseMetrics \subseteq train_info[d][k][e].names
              /\ CriticPhaseMetrics \subseteq train_info[d][k][e].names

\* C22: every index of every gather of sample lies within the array the
\* gather indexes: the draws from the flat buffer and the second draws inside
\* _q_loss_fn and _actor_loss_fn, which index a minibatch of 512 elements.
C22_GatherInBounds ==
    \A g \in 1..Len(draw.gathers) : \A j \in 1..MinibatchSize :
        /\ draw.gathers[g].idx[j] >= 0
        /\ draw.gathers[g].idx[j] < draw.gathers[g].len

\* C23: no PRNG key is consumed by more than one random operation, in setup
\* and in the update steps: no parent key is split twice, no key is used as a
\* seed twice, and no key is used as a seed and then carried on and split.
C23_KeySingleUse == draw.reused = {}

\* The largest element of a finite non-empty set of integers.
MaxOf(S) == CHOOSE x \in S : \A y \in S : y <= x

\* The maximum of -1e7 and the evaluation returns of the iterations so far.
BestReturnSoFar ==
    MaxOf({InitialMaxReturn} \cup {orch.returns[i] : i \in 1..Len(orch.returns)})

\* The iterations whose evaluation return is that maximum.
Attaining == {i \in 1..Len(orch.returns) : orch.returns[i] = BestReturnSoFar}

\* An iteration of the orchestrator loop is over, or the loop is.
BetweenIterations == orch.pc \in {"loop", "stopped"}

\* C24: between the iterations of run_experiment's loop, with absolute_metric
\* max_episode_return is the maximum of -1e7 and the returns evaluated so far
\* and best_params are the actor parameters evaluated by the latest iteration
\* whose return is that maximum, or the initial ones if no return reached
\* -1e7; without absolute_metric both are as they were set before the loop.
C24_BestParams ==
    BetweenIterations =>
        /\ Len(orch.returns) = orch.eval_step
        /\ Len(orch.evaluated) = orch.eval_step
        /\ orch.absolute_metric =>
              /\ orch.max_episode_return = BestReturnSoFar
              /\ orch.best_params =
                    IF Attaining = {} THEN init_params(config).actor_params
                    ELSE orch.evaluated[MaxOf(Attaining)]
        /\ ~orch.absolute_metric =>
              /\ orch.max_episode_return = InitialMaxReturn
              /\ orch.best_params = init_params(config).actor_params

\* C24 witness: a run with absolute_metric is over after two iterations that
\* evaluated different actor parameters with the same return, above -1e7; the
\* best parameters are those of the second one.
C24_Witness ==
    /\ orch.pc = "stopped" /\ orch.absolute_metric /\ orch.eval_step = 2
    /\ orch.returns[1] = orch.returns[2] /\ orch.returns[1] > InitialMaxReturn
    /\ orch.evaluated[1] # orch.evaluated[2]
    /\ orch.best_params = orch.evaluated[2]

====
